---- MODULE Spec2Model ----
(***************************************************************************)
(* Verification model of nova-ai-windows-llite.                            *)
(*                                                                         *)
(*   Spec / FairSpec  the execution side of gui_app.py: the GUI thread     *)
(*                    (NovaAILiteWindow) creating TypingWorker threads,    *)
(*                    enqueueing scripts and cancelling, and each          *)
(*                    TypingWorker.run / ScriptRunner.run step by step.    *)
(*   SpecInterp       one ScriptRunner.run over every instruction name.    *)
(*   FairSpecCancel   cancel() against a worker with a full queue.         *)
(*   SpecGen          AIWorker.run: the parallel generation workers.       *)
(***************************************************************************)
EXTENDS Integers, Sequences, FiniteSets, TLC

\* ------------------------------------------------------------------ bounds
MaxWorkers == 2      \* TypingWorker objects the window may create
MaxJobs == 3         \* scripts accepted by enqueue in one behaviour
MaxScriptLen == 2    \* instructions in one script
MaxImages == 3       \* images of one AI run

\* ---------------------------------------------------------------- scripts
\* The instruction names of the env dictionary of ScriptRunner.run.
InstrNames ==
  { "insert_text", "insert_paragraph", "insert_small_paragraph",
    "insert_equation", "insert_latex_equation", "insert_template",
    "focus_placeholder", "insert_box", "exit_box", "insert_view_box",
    "insert_table", "set_bold", "set_underline", "set_char_width_ratio",
    "set_table_border_white", "set_align_right_next_line",
    "set_align_justify_next_line" }

\* env of ScriptRunner.run: TRUE when the name is bound to a _wrap* closure,
\* which polls cancel_check before calling the controller.
Wrapped(name) == name \in InstrNames \ {"set_char_width_ratio"}

\* A script as the worker sees it: the instruction calls it holds, in text
\* order, and whether the normalised text compiles (ok) or raises SyntaxError.
ScriptsOver(names) ==
  { [ok |-> o, instrs |-> s] :
      o \in BOOLEAN,
      s \in UNION { [1..n -> names] : n \in 1..MaxScriptLen } }

\* Scripts the GUI hands to the worker in Spec: one that compiles, holding a
\* wrapped and the unwrapped name, and one that takes the fallback path.
\* SpecInterp ranges over every script of ScriptsOver(InstrNames).
ScriptPool ==
  { [ok |-> TRUE, instrs |-> <<"insert_text", "set_char_width_ratio">>],
    [ok |-> FALSE, instrs |-> <<"insert_text", "insert_paragraph">>] }

\* What a call into the sink (HWP over COM) can do: succeed, raise an error
\* whose message _is_rpc_unavailable_message accepts, or raise another error.
SinkOutcome == {"ok", "rpc", "err"}

\* -------------------------------------------------------------- variables
VARIABLES
  typing_worker,   \* NovaAILiteWindow._typing_worker: 0 is None, else a worker id
  workers,         \* worker id -> the TypingWorker object and its thread
  jobs,            \* the jobs accepted so far, by acceptance order (history)
  gen,             \* AIWorker.run: its locals, its futures and its signals
  pipe,            \* ScriptRunner.run, lines 584-619: its locals
  fb,              \* ScriptRunner._execute_fallback: its locals
  hwp,             \* the HwpController object: its fields and its sink calls
  fs               \* the Firestore user document and the calls in flight

vars == <<typing_worker, workers, jobs, gen, pipe, fb, hwp, fs>>

WorkerIds == 1..MaxWorkers

\* TypingWorker.__init__ plus the locals of run(); created is FALSE for an
\* object the window has not constructed yet.
NewWorker ==
  [ created    |-> FALSE,
    running    |-> FALSE,     \* QThread.isRunning()
    q          |-> <<>>,      \* self._q, job ids
    cancel     |-> FALSE,     \* self._cancel
    pc         |-> "idle",
    controller |-> FALSE,     \* controller is not None
    job        |-> 0,         \* the job taken from the queue
    attempt    |-> 0,         \* 1: line 1236, 2: the replay of line 1247/1261
    pos        |-> 0,         \* next instruction of the script
    ndisp      |-> 0,         \* controller calls made in this attempt
    polled     |-> FALSE,     \* cancel_check returned False at this boundary
    observed   |-> FALSE,     \* a cancel_check of this worker returned True
    fail1      |-> "none",    \* how attempt 1 of the current job ended
    fail2      |-> "none",    \* how attempt 2 of the current job ended
    exit       |-> "none",    \* signal run() ended with
    msg        |-> "none" ]   \* argument of the error signal

NewJob(s, w) ==
  [ script |-> s, w |-> w, started |-> FALSE, finished |-> FALSE,
    drained |-> FALSE ]

InitWorker ==
  /\ typing_worker = 0
  /\ workers = [w \in WorkerIds |-> NewWorker]
  /\ jobs = <<>>

\* No AIWorker has been started.
GenIdle == [pc |-> "none"]
\* No script is being normalised.
PipeIdle == [pc |-> "none"]
\* The fallback parser has not been entered.
FbIdle == [pc |-> "none"]
\* No HwpController has been constructed.
HwpNone == [pc |-> "none"]
\* No call of the profile backend is in flight.
FsIdle == [pc |-> "none"]
\* The parts of the program a specification leaves out are at rest.
NoFallback == fb = FbIdle
NoController == hwp = HwpNone
NoBackend == fs = FsIdle

\* ------------------------------------------------------------- GUI thread
IsRunning(w) == w # 0 /\ workers[w].running

Unborn == { w \in WorkerIds : ~workers[w].created }

\* The worker _ensure_typing_worker leaves in self._typing_worker: the current
\* one while its thread runs, else a new started TypingWorker.
ensure_typing_worker_always_new ==
  IF Unborn = {} THEN 0 ELSE CHOOSE w \in Unborn : \A v \in Unborn : w <= v
ensure_typing_worker ==
  IF IsRunning(typing_worker) THEN typing_worker
  ELSE IF Unborn = {} THEN 0
  ELSE CHOOSE w \in Unborn : \A v \in Unborn : w <= v

Started(rec) ==
  IF rec.created THEN rec
  ELSE [rec EXCEPT !.created = TRUE, !.running = TRUE, !.pc = "L1216"]

\* on_type_run / _run_typing_script / _on_code_type_clicked / _try_auto_type:
\* a non-blank script is given to _ensure_typing_worker() and enqueue().
OnTypeRun(s) ==
  /\ Len(jobs) < MaxJobs
  /\ LET w == ensure_typing_worker
         j == Len(jobs) + 1
     IN /\ w # 0
        /\ typing_worker' = w
        /\ workers' = [workers EXCEPT
                         ![w] = [Started(@) EXCEPT !.q = Append(@, j)]]
        /\ jobs' = Append(jobs, NewJob(s, w))
  /\ UNCHANGED <<gen, pipe, fb, hwp, fs>>

\* TypingWorker.cancel: set the flag, then drain the queue.
cancel_without_drain(rec) == [rec EXCEPT !.cancel = TRUE]
cancel(rec) == [rec EXCEPT !.cancel = TRUE, !.q = <<>>]

\* _cancel_typing
CancelTyping ==
  /\ IsRunning(typing_worker)
  /\ LET w == typing_worker
         gone == { workers[w].q[i] : i \in 1..Len(workers[w].q) }
     IN /\ workers' = [workers EXCEPT ![w] = cancel(@)]
        /\ jobs' = [j \in 1..Len(jobs) |->
                      IF j \in gone THEN [jobs[j] EXCEPT !.drained = TRUE]
                      ELSE jobs[j]]
  /\ UNCHANGED <<typing_worker, gen, pipe, fb, hwp, fs>>

\* ------------------------------------------------ TypingWorker.run, by step
Upd(w, rec) ==
  /\ workers' = [workers EXCEPT ![w] = rec]
  /\ UNCHANGED <<gen, pipe, fb, hwp, fs>>
UpdJob(j, rec) == jobs' = [jobs EXCEPT ![j] = rec]

ScriptOf(rec) == jobs[rec.job].script.instrs
NameAt(rec) == ScriptOf(rec)[rec.pos]

\* The except clauses of TypingWorker.run (lines 1237-1267) for an exception
\* of the given kind leaving runner.run: "cancelled" is ScriptCancelled, "rpc"
\* an error _is_rpc_unavailable_message accepts, "err" any other error.
except_clauses_replay_again(rec, kind) ==
  CASE kind = "rpc" -> [rec EXCEPT !.fail1 = kind, !.pc = "L1244"]
    [] kind = "cancelled" /\ rec.attempt = 1 ->
         [rec EXCEPT !.fail1 = kind, !.exit = "cancelled", !.pc = "finally"]
    [] OTHER ->
         [rec EXCEPT !.fail2 = kind, !.exit = "error", !.msg = kind,
                     !.pc = "finally"]
except_clauses_next_job(rec, kind) ==
  IF rec.attempt = 1
  THEN CASE kind = "cancelled" ->
              [rec EXCEPT !.fail1 = kind, !.exit = "cancelled", !.pc = "finally"]
         [] kind = "rpc" ->
              [rec EXCEPT !.fail1 = kind, !.pc = "L1244"]
         [] OTHER ->
              [rec EXCEPT !.fail1 = kind, !.exit = "error", !.msg = kind,
                          !.pc = "L1216"]
  ELSE [rec EXCEPT !.fail2 = kind, !.exit = "error", !.msg = kind,
                   !.pc = "finally"]
except_clauses(rec, kind) ==
  IF rec.attempt = 1
  THEN CASE kind = "cancelled" ->
              [rec EXCEPT !.fail1 = kind, !.exit = "cancelled", !.pc = "finally"]
         [] kind = "rpc" ->
              [rec EXCEPT !.fail1 = kind, !.pc = "L1244"]
         [] OTHER ->
              [rec EXCEPT !.fail1 = kind, !.exit = "error", !.msg = kind,
                          !.pc = "finally"]
  ELSE \* except Exception as retry_exc: self.error.emit(str(retry_exc))
       [rec EXCEPT !.fail2 = kind, !.exit = "error", !.msg = kind,
                   !.pc = "finally"]

\* line 1216: while True: if self._cancel.is_set(): cancelled.emit(); return
LoopTop(w) ==
  /\ workers[w].pc = "L1216"
  /\ Upd(w, IF workers[w].cancel
            THEN [workers[w] EXCEPT !.observed = TRUE, !.exit = "cancelled",
                                    !.pc = "finally"]
            ELSE [workers[w] EXCEPT !.pc = "L1220"])
  /\ UNCHANGED <<typing_worker, jobs>>

\* line 1220: self._q.get(timeout=0.1); queue.Empty -> continue
QueueGet(w) ==
  /\ workers[w].pc = "L1220"
  /\ Upd(w, IF workers[w].q = <<>>
            THEN [workers[w] EXCEPT !.pc = "L1216"]
            ELSE [workers[w] EXCEPT !.job = Head(workers[w].q), !.q = Tail(@),
                                    !.attempt = 0, !.pos = 0, !.ndisp = 0,
                                    !.fail1 = "none", !.fail2 = "none",
                                    !.pc = "L1224"])
  /\ UNCHANGED <<typing_worker, jobs>>

\* line 1224: the second poll of the flag, after a job was accepted
AfterGet(w) ==
  /\ workers[w].pc = "L1224"
  /\ Upd(w, IF workers[w].cancel
            THEN [workers[w] EXCEPT !.observed = TRUE, !.exit = "cancelled",
                                    !.pc = "finally"]
            ELSE IF workers[w].controller
                 THEN [workers[w] EXCEPT !.pc = "L1233"]
                 ELSE [workers[w] EXCEPT !.pc = "L1229"])
  /\ UNCHANGED <<typing_worker, jobs>>

\* lines 1228-1231: controller = HwpController(); controller.connect().
\* The call stands outside the inner try: an exception of connect() leaves
\* run() through the finally clause alone, and no signal is emitted.
FirstConnect(w) ==
  /\ workers[w].pc = "L1229"
  /\ \E o \in SinkOutcome :
       Upd(w, IF o = "ok"
              THEN [workers[w] EXCEPT !.controller = TRUE, !.pc = "L1233"]
              ELSE [workers[w] EXCEPT !.fail1 = "connect_" \o o,
                                      !.exit = "crash", !.pc = "finally"])
  /\ UNCHANGED <<typing_worker, jobs>>

\* line 1233: self.item_started.emit(idx), then runner.run is entered
ItemStarted(w) ==
  /\ workers[w].pc = "L1233"
  /\ Upd(w, [workers[w] EXCEPT !.attempt = 1, !.pc = "L684"])
  /\ UpdJob(workers[w].job, [jobs[workers[w].job] EXCEPT !.started = TRUE])
  /\ UNCHANGED typing_worker

\* ScriptRunner.run, lines 584-689: the text is normalised, the flag is polled
\* once (line 684), then exec compiles the text: SyntaxError hands the text to
\* _execute_fallback, otherwise the statements run in order.
RunStart(w) ==
  /\ workers[w].pc = "L684"
  /\ LET r == workers[w]
         j == r.job
     IN Upd(w, IF r.cancel
               THEN except_clauses([r EXCEPT !.observed = TRUE, !.ndisp = 0],
                                   "cancelled")
               ELSE [r EXCEPT !.pos = 1, !.ndisp = 0, !.polled = FALSE,
                              !.pc = IF jobs[j].script.ok THEN "exec"
                                     ELSE "fb_top"])
  /\ UNCHANGED <<typing_worker, jobs>>

\* Where the interpreter stands after the instruction at pos is done with.
Advance(rec, loop) ==
  [rec EXCEPT !.pos = @ + 1, !.polled = FALSE,
              !.pc = IF rec.pos + 1 > Len(ScriptOf(rec)) THEN "ret" ELSE loop]

\* _wrap0/_wrap1/_wrap_bold/_wrap_underline/_wrap_table._inner, first line:
\* if cancel_check and cancel_check(): raise ScriptCancelled
ExecPoll(w) ==
  /\ workers[w].pc = "exec"
  /\ Wrapped(NameAt(workers[w]))
  /\ ~workers[w].polled
  /\ LET r == workers[w]
     IN Upd(w, IF r.cancel
               THEN except_clauses([r EXCEPT !.observed = TRUE], "cancelled")
               ELSE [r EXCEPT !.polled = TRUE])
  /\ UNCHANGED <<typing_worker, jobs>>

\* The controller method is called; an exception it raises leaves exec and
\* run (line 693-695: raise exc).
ExecCall(w) ==
  /\ workers[w].pc = "exec"
  /\ workers[w].polled \/ ~Wrapped(NameAt(workers[w]))
  /\ LET r == workers[w]
         d == [r EXCEPT !.ndisp = @ + 1]
     IN \E o \in SinkOutcome :
          Upd(w, IF o = "ok" THEN Advance(d, "exec")
                 ELSE except_clauses([d EXCEPT !.polled = FALSE], o))
  /\ UNCHANGED <<typing_worker, jobs>>

\* _execute_fallback line 480: the poll at the top of the scan loop; the
\* exception leaves _execute_fallback and run.
FallbackTop(w) ==
  /\ workers[w].pc = "fb_top"
  /\ LET r == workers[w]
     IN Upd(w, IF r.cancel
               THEN except_clauses([r EXCEPT !.observed = TRUE], "cancelled")
               ELSE [r EXCEPT !.pc = "fb_try"])
  /\ UNCHANGED <<typing_worker, jobs>>

\* _execute_fallback lines 530-532 and 573-574: the poll inside the try; its
\* ScriptCancelled is caught by "except Exception" of the same try, logged,
\* and the scan goes on behind the instruction.
FallbackPoll(w) ==
  /\ workers[w].pc = "fb_try"
  /\ LET r == workers[w]
     IN Upd(w, IF r.cancel
               THEN Advance([r EXCEPT !.observed = TRUE], "fb_top")
               ELSE [r EXCEPT !.polled = TRUE, !.pc = "fb_call"])
  /\ UNCHANGED <<typing_worker, jobs>>

\* _execute_fallback lines 533-574: the controller method is called; what it
\* raises is logged (or passed over) and the scan goes on.
FallbackCall(w) ==
  /\ workers[w].pc = "fb_call"
  /\ LET r == workers[w]
     IN \E o \in SinkOutcome :
          Upd(w, Advance([r EXCEPT !.ndisp = @ + 1], "fb_top"))
  /\ UNCHANGED <<typing_worker, jobs>>

\* lines 1243-1246 / 1257-1260: a new controller is connected for the replay;
\* an exception of connect() is caught by "except Exception as retry_exc".
RetryConnect(w) ==
  /\ workers[w].pc = "L1244"
  /\ LET r == workers[w]
     IN \E o \in SinkOutcome :
          Upd(w, IF o = "ok"
                 THEN [r EXCEPT !.controller = TRUE, !.attempt = @ + 1,
                                !.pc = "L684"]
                 ELSE except_clauses([r EXCEPT !.attempt = @ + 1],
                                     "connect_" \o o))
  /\ UNCHANGED <<typing_worker, jobs>>

\* runner.run returned; line 1268: self.item_finished.emit(idx); next round
ItemFinished(w) ==
  /\ workers[w].pc = "ret"
  /\ Upd(w, [workers[w] EXCEPT !.pc = "L1216"])
  /\ UpdJob(workers[w].job, [jobs[workers[w].job] EXCEPT !.finished = TRUE])
  /\ UNCHANGED typing_worker

\* lines 1269-1274: the finally clause; run() is left, its locals are gone
\* and the thread ends. The object keeps its queue and its flag.
ThreadExit(w) ==
  /\ workers[w].pc = "finally"
  /\ Upd(w, [NewWorker EXCEPT !.created = TRUE, !.pc = "done",
                              !.q = workers[w].q,
                              !.cancel = workers[w].cancel,
                              !.exit = workers[w].exit,
                              !.msg = workers[w].msg])
  /\ UNCHANGED <<typing_worker, jobs>>

WorkerStep(w) ==
  \/ LoopTop(w) \/ QueueGet(w) \/ AfterGet(w) \/ FirstConnect(w)
  \/ ItemStarted(w) \/ RunStart(w) \/ ExecPoll(w) \/ ExecCall(w)
  \/ FallbackTop(w) \/ FallbackPoll(w) \/ FallbackCall(w)
  \/ RetryConnect(w) \/ ItemFinished(w) \/ ThreadExit(w)

\* ---------------------------------------------------------- specifications
Init == InitWorker /\ gen = GenIdle /\ pipe = PipeIdle /\ NoFallback /\ NoController /\ NoBackend

Next ==
  \/ \E s \in ScriptPool : OnTypeRun(s)
  \/ CancelTyping
  \/ \E w \in WorkerIds : WorkerStep(w)

Spec == Init /\ [][Next]_vars

\* The worker is an OS thread of its own: the scheduler keeps running it.
FairSpec == Spec /\ \A w \in WorkerIds : WF_vars(WorkerStep(w))

\* One ScriptRunner.run at a time over every script of the instruction set:
\* the window has started its worker for one accepted script.
InitInterp ==
  /\ typing_worker = 1
  /\ gen = GenIdle
  /\ pipe = PipeIdle /\ NoFallback /\ NoController /\ NoBackend
  /\ \E s \in ScriptsOver(InstrNames) :
       /\ jobs = <<NewJob(s, 1)>>
       /\ workers = [w \in WorkerIds |->
                       IF w = 1 THEN [Started(NewWorker) EXCEPT !.q = <<1>>]
                       ELSE NewWorker]

NextInterp ==
  \/ CancelTyping
  \/ \E w \in WorkerIds : WorkerStep(w)

SpecInterp == InitInterp /\ [][NextInterp]_vars

\* Cancellation with a full queue: the window has started its worker and
\* handed it MaxJobs scripts; from there only the worker and cancel() act.
InitCancel ==
  /\ typing_worker = 1
  /\ gen = GenIdle
  /\ pipe = PipeIdle /\ NoFallback /\ NoController /\ NoBackend
  /\ jobs \in [1..MaxJobs -> { NewJob(s, 1) : s \in ScriptPool }]
  /\ workers = [w \in WorkerIds |->
                  IF w = 1
                  THEN [Started(NewWorker) EXCEPT
                          !.q = [i \in 1..MaxJobs |-> i]]
                  ELSE NewWorker]

FairSpecCancel ==
  /\ InitCancel /\ [][NextInterp]_vars
  /\ \A w \in WorkerIds : WF_vars(WorkerStep(w))

\* ------------------------------------------------------- AIWorker.run
\* What _job(idx, image_path) does for image i: it returns the script of that
\* image ("text", written i), returns an empty or None result ("empty"), or
\* raises ("exc").
JobOutcome == {"text", "empty", "exc"}

\* The empty string is written 0, the script generated for image i as i.
EmptyText == 0

\* fut.result() or "" (line 312); the except clause stores "" (line 321).
ResultText(i, out) == IF out = "text" THEN i ELSE EmptyText

\* results[idx] = text (lines 313 and 321); k counts the futures collected.
store_by_completion(results, idx, k, text) == [results EXCEPT ![k] = text]
store_result(results, idx, k, text) == [results EXCEPT ![idx] = text]

\* _start_ai_run creates the AIWorker for a non-empty image list; lines 87-88
\* and 294-301: results = [""] * total, max_workers = total or the value of
\* NOVA_AI_MAX_WORKERS clamped to 1..total.
InitGen ==
  /\ InitWorker
  /\ pipe = PipeIdle /\ NoFallback /\ NoController /\ NoBackend
  /\ \E total \in 1..MaxImages : \E mw \in 1..total :
       gen = [ pc          |-> "submit",
               total       |-> total,
               max_workers |-> mw,
               fut         |-> [i \in 1..total |-> "new"],
               out         |-> [i \in 1..total |-> "none"],
               results     |-> [i \in 1..total |-> EmptyText],
               order       |-> <<>>,       \* item_finished signals, by idx
               emitted     |-> <<>> ]      \* argument of the finished signal

GenIdx == 1..gen.total
NumRunning == Cardinality({ i \in GenIdx : gen.fut[i] = "running" })

\* lines 303-307: every image is submitted to the pool, in index order
GenSubmit ==
  /\ gen.pc = "submit"
  /\ gen' = [gen EXCEPT !.pc = "collect",
                        !.fut = [i \in GenIdx |-> "pending"]]
  /\ UNCHANGED <<typing_worker, workers, jobs, pipe, fb, hwp, fs>>

\* A pool thread takes the oldest pending work item; at most max_workers run.
JobStart(i) ==
  /\ gen.pc = "collect"
  /\ gen.fut[i] = "pending"
  /\ \A k \in GenIdx : k < i => gen.fut[k] # "pending"
  /\ NumRunning < gen.max_workers
  /\ gen' = [gen EXCEPT !.fut[i] = "running"]
  /\ UNCHANGED <<typing_worker, workers, jobs, pipe, fb, hwp, fs>>

\* _job returns or raises (lines 92-292)
JobDone(i) ==
  /\ gen.pc = "collect"
  /\ gen.fut[i] = "running"
  /\ \E o \in JobOutcome :
       gen' = [gen EXCEPT !.fut[i] = "done", !.out[i] = o]
  /\ UNCHANGED <<typing_worker, workers, jobs, pipe, fb, hwp, fs>>

\* lines 309-323: as_completed yields a finished future; its result is
\* stored and item_finished is emitted
GenCollect(i) ==
  /\ gen.pc = "collect"
  /\ gen.fut[i] = "done"
  /\ gen' = [gen EXCEPT
               !.fut[i] = "collected",
               !.results = store_result(gen.results, i, Len(gen.order) + 1,
                                        ResultText(i, gen.out[i])),
               !.order = Append(@, i)]
  /\ UNCHANGED <<typing_worker, workers, jobs, pipe, fb, hwp, fs>>

\* line 324: self.finished.emit(results)
GenFinished ==
  /\ gen.pc = "collect"
  /\ \A i \in GenIdx : gen.fut[i] = "collected"
  /\ gen' = [gen EXCEPT !.pc = "finished", !.emitted = gen.results]
  /\ UNCHANGED <<typing_worker, workers, jobs, pipe, fb, hwp, fs>>

NextGen ==
  \/ GenSubmit
  \/ \E i \in GenIdx : JobStart(i)
  \/ \E i \in GenIdx : JobDone(i)
  \/ \E i \in GenIdx : GenCollect(i)
  \/ GenFinished

SpecGen == InitGen /\ [][NextGen]_vars

\* ------------------------------------------- ScriptRunner: normalisation
\* Script text is a sequence of characters. The words the passes search for
\* are single characters of the alphabet: a call name with its "(", a call
\* without arguments, a template name, a placeholder marker, a score such as
\* [3<jeom>], written "[3]", the circled digit one, written "(1)", the item
\* opener giyeok-dot, written "g.", the escape sequence backslash-t, written
\* "\\t", the prime sign U+2032, written "U+2032", and " + ". The letters of
\* the alphabet are "a" alone, so the rewrites of _fix that need the words
\* "rm" or "prime" in the payload have nothing to act on.
TargetCalls == {"insert_text(", "insert_equation(", "insert_latex_equation("}
EquationCalls == {"insert_equation(", "insert_latex_equation("}
Quotes == {"'", "\""}
LineBreaks == {"\n", "\r"}
Blanks == {" ", "\t"}

RECURSIVE Join(_, _)
\* sep.join(lines)
Join(lines, sep) ==
  IF lines = <<>> THEN <<>>
  ELSE IF Len(lines) = 1 THEN lines[1]
  ELSE lines[1] \o <<sep>> \o Join(Tail(lines), sep)

RECURSIVE SplitAt(_, _, _)
\* script.split("\n"), cur being the line under construction
SplitAt(s, i, cur) ==
  IF i > Len(s) THEN <<cur>>
  ELSE IF s[i] = "\n" THEN <<cur>> \o SplitAt(s, i + 1, <<>>)
  ELSE SplitAt(s, i + 1, Append(cur, s[i]))
SplitLines(s) == SplitAt(s, 1, <<>>)

RECURSIVE LStrip(_)
LStrip(s) ==
  IF s # <<>> /\ Head(s) \in Blanks \cup LineBreaks THEN LStrip(Tail(s)) ELSE s
RECURSIVE RStrip(_)
RStrip(s) ==
  IF s # <<>> /\ s[Len(s)] \in Blanks \cup LineBreaks
  THEN RStrip(SubSeq(s, 1, Len(s) - 1)) ELSE s
\* str.strip()
Strip(s) == LStrip(RStrip(s))

\* The characters of s that are not blanks: what a pattern sees that allows
\* \s* between all of its parts.
Unspaced(s) == SelectSeq(s, LAMBDA c : c \notin Blanks)

Range(s) == { s[i] : i \in 1..Len(s) }
Contains(s, c) == \E i \in 1..Len(s) : s[i] = c
ContainsAny(s, cs) == \E i \in 1..Len(s) : s[i] \in cs
\* "ab" in s, for two characters
ContainsPair(s, a, b) == \E i \in 1..(Len(s) - 1) : s[i] = a /\ s[i + 1] = b
EndsWithPair(s, a, b) ==
  Len(s) >= 2 /\ s[Len(s) - 1] = a /\ s[Len(s)] = b

RECURSIVE SanitizeFrom(_, _, _, _, _)
SanitizeFrom(s, i, quote_char, escaped, out) ==
  IF i > Len(s)
  THEN IF quote_char # "none" THEN Append(out, quote_char) ELSE out
  ELSE LET ch == s[i] IN
    IF escaped THEN SanitizeFrom(s, i + 1, quote_char, FALSE, Append(out, ch))
    ELSE IF ch = "\\"
      THEN SanitizeFrom(s, i + 1, quote_char, TRUE, Append(out, ch))
    ELSE IF ch \in Quotes
      THEN SanitizeFrom(s, i + 1,
                        IF quote_char = "none" THEN ch
                        ELSE IF quote_char = ch THEN "none" ELSE quote_char,
                        FALSE, Append(out, ch))
    ELSE IF ch \in LineBreaks /\ quote_char # "none"
      THEN SanitizeFrom(s, i + 1, quote_char, FALSE, Append(out, " "))
    ELSE SanitizeFrom(s, i + 1, quote_char, FALSE, Append(out, ch))
\* _sanitize_multiline_strings
sanitize_multiline_strings(script) ==
  SanitizeFrom(script, 1, "none", FALSE, <<>>)

RECURSIVE InlineFrom(_, _, _, _, _, _)
InlineFrom(s, i, in_call, quote_char, quote_open, out) ==
  IF i > Len(s)
  THEN IF in_call /\ quote_open
       THEN out \o <<IF quote_char = "none" THEN "'" ELSE quote_char, ")">>
       ELSE out
  ELSE LET ch == s[i]
           inc == in_call \/ ch \in TargetCalls
           toggles == inc /\ ch \in Quotes /\ quote_char = ch
           qc == IF inc /\ ch \in Quotes /\ quote_char = "none" THEN ch
                 ELSE IF toggles /\ quote_open THEN "none"
                 ELSE quote_char
           qo == IF inc /\ ch \in Quotes /\ quote_char = "none" THEN TRUE
                 ELSE IF toggles THEN ~quote_open
                 ELSE quote_open
       IN IF inc /\ ch \in LineBreaks
          THEN InlineFrom(s, i + 1, inc, qc, qo, Append(out, " "))
          ELSE InlineFrom(s, i + 1, inc /\ ~(ch = ")" /\ ~qo), qc, qo,
                          Append(out, ch))
\* _normalize_inline_calls
normalize_inline_calls(script) ==
  InlineFrom(script, 1, FALSE, "none", FALSE, <<>>)

NumOf(s, c) == Cardinality({ i \in 1..Len(s) : s[i] = c })

\* _sanitize_unterminated_equation_strings, one line
CloseEquation(line) ==
  IF ContainsPair(line, "insert_equation(", "'") /\ NumOf(line, "'") % 2 = 1
  THEN line \o <<"'", ")">>
  ELSE IF ContainsPair(line, "insert_equation(", "\"")
          /\ NumOf(line, "\"") % 2 = 1
  THEN line \o <<"\"", ")">>
  ELSE line
sanitize_unterminated_equation_strings(script) ==
  LET lines == SplitLines(script)
  IN Join([i \in 1..Len(lines) |-> CloseEquation(lines[i])], "\n")

RECURSIVE FixFrom(_, _, _)
\* _fix, after its first replace: a run of apostrophes behind a backslash
\* becomes one apostrophe, and a backslash behind a letter and before a
\* non-letter becomes an apostrophe.
FixFrom(s, i, out) ==
  IF i > Len(s) THEN out
  ELSE IF s[i] = "\\" /\ i < Len(s) /\ s[i + 1] = "'"
    THEN LET j == CHOOSE j \in (i + 1)..Len(s) :
                    /\ \A k \in (i + 1)..j : s[k] = "'"
                    /\ (j = Len(s) \/ s[j + 1] # "'")
         IN FixFrom(s, j + 1, Append(out, "'"))
  ELSE IF s[i] = "\\" /\ out # <<>> /\ out[Len(out)] = "a"
          /\ (i = Len(s) \/ s[i + 1] # "a")
    THEN FixFrom(s, i + 1, Append(out, "'"))
  ELSE FixFrom(s, i + 1, Append(out, s[i]))
Fix(s) ==
  FixFrom([i \in 1..Len(s) |-> IF s[i] = "U+2032" THEN "'" ELSE s[i]], 1, <<>>)

\* where the payload matched by pattern ends, 0 if pattern does not match at i
PayloadEnd(s, i) ==
  IF s[i] \in EquationCalls /\ i < Len(s) /\ s[i + 1] \in Quotes
     /\ \E k \in (i + 2)..(Len(s) - 1) : s[k] = s[i + 1] /\ s[k + 1] = ")"
  THEN CHOOSE k \in (i + 2)..(Len(s) - 1) :
         /\ s[k] = s[i + 1] /\ s[k + 1] = ")"
         /\ \A j \in (i + 2)..(k - 1) : ~(s[j] = s[i + 1] /\ s[j + 1] = ")")
  ELSE 0

RECURSIVE PrimesFrom(_, _, _)
PrimesFrom(s, i, out) ==
  IF i > Len(s) THEN out
  ELSE LET k == PayloadEnd(s, i) IN
    IF k = 0 THEN PrimesFrom(s, i + 1, Append(out, s[i]))
    ELSE PrimesFrom(s, k + 2,
                    out \o <<s[i], s[i + 1]>> \o Fix(SubSeq(s, i + 2, k - 1))
                        \o <<s[k], ")">>)
\* _normalize_primes_in_equations
normalize_primes_in_equations(script) == PrimesFrom(script, 1, <<>>)

RECURSIVE CountFrom(_, _, _, _)
CountFrom(text, i, quote, escaped) ==
  IF i > Len(text) THEN 0
  ELSE IF escaped THEN CountFrom(text, i + 1, quote, FALSE)
  ELSE IF text[i] = "\\" THEN CountFrom(text, i + 1, quote, TRUE)
  ELSE (IF text[i] = quote THEN 1 ELSE 0)
       + CountFrom(text, i + 1, quote, FALSE)
\* _count_unescaped
count_unescaped(text, quote) == CountFrom(text, 1, quote, FALSE)

RECURSIVE SumCount(_, _)
\* sum(_count_unescaped(chunk, quote_char) for chunk in buffer)
SumCount(buffer, quote) ==
  IF buffer = <<>> THEN 0
  ELSE count_unescaped(Head(buffer), quote) + SumCount(Tail(buffer), quote)

\* " ".join(part.strip() for part in buffer)
JoinStripped(buffer) ==
  Join([i \in 1..Len(buffer) |-> Strip(buffer[i])], " ")

RECURSIVE RepairFrom(_, _, _, _, _)
RepairFrom(lines, i, quote_char, buffer, repaired) ==
  IF i > Len(lines)
  THEN IF buffer # <<>>
       THEN LET joined == JoinStripped(buffer)
            IN Append(repaired,
                      IF ~EndsWithPair(Strip(joined), quote_char, ")")
                      THEN joined \o <<quote_char, ")">>
                      ELSE joined)
       ELSE repaired
  ELSE LET line == lines[i]
           buf == Append(buffer, line)
       IN IF quote_char = "none"
          THEN IF ContainsAny(line, TargetCalls)
                  /\ count_unescaped(line, "'") % 2 = 1
               THEN RepairFrom(lines, i + 1, "'", <<line>>, repaired)
               ELSE IF ContainsAny(line, TargetCalls)
                       /\ count_unescaped(line, "\"") % 2 = 1
               THEN RepairFrom(lines, i + 1, "\"", <<line>>, repaired)
               ELSE RepairFrom(lines, i + 1, "none", <<>>,
                               Append(repaired, line))
          ELSE IF SumCount(buf, quote_char) % 2 = 0
               THEN RepairFrom(lines, i + 1, "none", <<>>,
                               Append(repaired, JoinStripped(buf)))
               ELSE RepairFrom(lines, i + 1, quote_char, buf, repaired)
\* a repair pass that leaves every line as it is
repair_multiline_calls_verbatim(lines) == lines

\* _repair_multiline_calls
repair_multiline_calls(lines) == RepairFrom(lines, 1, "none", <<>>, <<>>)

RECURSIVE ConcatFrom(_, _, _, _, _, _)
ConcatFrom(line, i, quote, escaped, buf, parts) ==
  IF i > Len(line)
  THEN IF Strip(buf) # <<>> THEN Append(parts, Strip(buf)) ELSE parts
  ELSE LET ch == line[i] IN
    IF escaped
      THEN ConcatFrom(line, i + 1, quote, FALSE, Append(buf, ch), parts)
    ELSE IF ch = "\\"
      THEN ConcatFrom(line, i + 1, quote, TRUE, Append(buf, ch), parts)
    ELSE IF ch \in Quotes
      THEN ConcatFrom(line, i + 1,
                      IF quote = "none" THEN ch
                      ELSE IF quote = ch THEN "none" ELSE quote,
                      FALSE, Append(buf, ch), parts)
    ELSE IF quote = "none" /\ ch = " + "
      THEN ConcatFrom(line, i + 1, quote, FALSE, <<>>,
                      IF Strip(buf) # <<>> THEN Append(parts, Strip(buf))
                      ELSE parts)
    ELSE ConcatFrom(line, i + 1, quote, FALSE, Append(buf, ch), parts)
\* _split_concat_calls
split_concat_calls(line) ==
  IF ~Contains(line, " + ") THEN <<line>>
  ELSE LET parts == ConcatFrom(line, 1, "none", FALSE, <<>>, <<>>)
       IN IF parts # <<>> THEN parts ELSE <<line>>

RECURSIVE ExpandFrom(_, _)
\* the loop of run() that collects expanded_lines
ExpandFrom(lines, i) ==
  IF i > Len(lines) THEN <<>>
  ELSE split_concat_calls(lines[i]) \o ExpandFrom(lines, i + 1)

Paragraph == <<"insert_paragraph()">>
SmallParagraph == <<"insert_small_paragraph()">>
AlignRight == <<"set_align_right_next_line()">>
AlignJustify == <<"set_align_justify_next_line()">>
ExitBox == <<"exit_box()">>
FocusLine(marker) == <<"focus_placeholder(", "'", marker, "'", ")">>
TextLine(payload) == <<"insert_text(", "'">> \o payload \o <<"'", ")">>

ChoiceTemplates == {"header.hwp", "box.hwp", "box_white.hwp"}
\* the openers of box_item_re and of box_start_re ("o" is a bullet)
BoxItemOpeners == {"g."}
BoxStartOpeners == {"g.", "o"}
ContentCalls ==
  {"insert_text(", "insert_equation(", "set_bold(",
   "set_align_justify_next_line()", "set_align_right_next_line()"}

StartsWith(s, c) == s # <<>> /\ s[1] = c
Last(s) == s[Len(s)]
Front(s) == SubSeq(s, 1, Len(s) - 1)

\* what follows the call name and the blanks behind it
Args(stripped) == LStrip(Tail(stripped))

\* fp_re: where the quote that closes the marker stands in Args, 0 for no match
FpClose(stripped) ==
  LET r == Args(stripped)
      Closes(k) == r[k] = r[1] /\ Unspaced(SubSeq(r, k + 1, Len(r))) = <<")">>
  IN IF StartsWith(stripped, "focus_placeholder(") /\ r # <<>>
        /\ r[1] \in Quotes /\ \E k \in 2..Len(r) : Closes(k)
     THEN CHOOSE k \in 2..Len(r) : Closes(k) /\ \A j \in 2..(k - 1) : ~Closes(j)
     ELSE 0
FpMarker(stripped) == SubSeq(Args(stripped), 2, FpClose(stripped) - 1)

\* box_item_re, box_start_re
OpensWith(stripped, openers) ==
  /\ StartsWith(stripped, "insert_text(")
  /\ StartsWith(Args(stripped), "'") \/ StartsWith(Args(stripped), "\"")
  /\ LET r == LStrip(Tail(Args(stripped))) IN r # <<>> /\ r[1] \in openers
\* content_re
IsContent(stripped) == stripped # <<>> /\ stripped[1] \in ContentCalls
\* choice_re
IsChoice(stripped) ==
  /\ StartsWith(stripped, "insert_text(")
       \/ StartsWith(stripped, "insert_equation(")
  /\ StartsWith(Args(stripped), "'") \/ StartsWith(Args(stripped), "\"")
  /\ Contains(Tail(Args(stripped)), "(1)")
IsTemplate(stripped) ==
  StartsWith(stripped, "insert_template(")
  /\ ContainsAny(stripped, ChoiceTemplates)

PlaceholderStart ==
  [out |-> <<>>, seen_inside |-> FALSE, inserted_inside |-> FALSE,
   saw_template |-> FALSE, has_choices_placeholder |-> FALSE,
   saw_outside |-> FALSE, saw_after_box |-> FALSE]

\* a normalizer that synthesizes no marker
OtherLine_verbatim(st, line) == [st EXCEPT !.out = Append(@, line)]

\* the body of the loop for a line that fp_re does not match
OtherLine(st, line) ==
  LET stripped == Strip(line)
      s1 == IF st.saw_template /\ ~st.saw_outside /\ IsContent(stripped)
            THEN [st EXCEPT !.out = Append(@, FocusLine("@@@")),
                            !.saw_outside = TRUE]
            ELSE st
      s2 == IF /\ ~s1.seen_inside /\ s1.saw_template
               /\ s1.has_choices_placeholder /\ s1.saw_outside
               /\ ~s1.saw_after_box
               /\ \/ stripped = AlignJustify
                  \/ OpensWith(stripped, BoxItemOpeners)
                  \/ OpensWith(stripped, BoxStartOpeners)
            THEN [s1 EXCEPT !.out = Append(@, FocusLine("###")),
                            !.seen_inside = TRUE, !.inserted_inside = TRUE]
            ELSE s1
      s3 == IF /\ ~s2.seen_inside /\ s2.saw_template /\ s2.saw_outside
               /\ OpensWith(stripped, BoxItemOpeners)
            THEN [s2 EXCEPT
                    !.out = IF @ # <<>> /\ Strip(Last(@)) = AlignJustify
                            THEN Front(@) \o <<FocusLine("###"), AlignJustify>>
                            ELSE Append(@, FocusLine("###")),
                    !.seen_inside = TRUE, !.inserted_inside = TRUE]
            ELSE s2
      s4 == IF /\ s3.seen_inside /\ s3.saw_template
               /\ s3.has_choices_placeholder /\ ~s3.saw_after_box
               /\ IsChoice(stripped)
            THEN [s3 EXCEPT
                    !.out = @ \o <<ExitBox, Paragraph, FocusLine("&&&")>>,
                    !.saw_after_box = TRUE]
            ELSE s3
  IN [s4 EXCEPT !.out = Append(@, line)]

\* the body of the loop for a line that fp_re matches
MarkerLine(st, line) ==
  LET marker == FpMarker(Strip(line)) IN
  IF marker = <<"###">>
  THEN IF ~st.inserted_inside
       THEN [st EXCEPT !.seen_inside = TRUE, !.out = Append(@, line)]
       ELSE st
  ELSE IF marker = <<"@@@">>
  THEN IF st.seen_inside
       THEN [st EXCEPT !.saw_outside = TRUE,
                       !.out = @ \o <<ExitBox, Paragraph>>]
       ELSE IF st.saw_template
       THEN [st EXCEPT !.saw_outside = TRUE, !.out = Append(@, line)]
       ELSE [st EXCEPT !.saw_outside = TRUE]
  ELSE IF marker = <<"&&&">>
  THEN IF st.has_choices_placeholder
       THEN IF st.seen_inside
            THEN [st EXCEPT !.saw_after_box = TRUE,
                            !.out = @ \o <<ExitBox, Paragraph, line>>]
            ELSE [st EXCEPT !.saw_after_box = TRUE, !.out = Append(@, line)]
       ELSE st
  ELSE [st EXCEPT !.out = Append(@, line)]

PlaceholderLine(st, line) ==
  IF IsTemplate(Strip(line))
  THEN [st EXCEPT !.saw_template = TRUE, !.has_choices_placeholder = TRUE,
                  !.out = Append(@, line)]
  ELSE IF FpClose(Strip(line)) = 0 THEN OtherLine(st, line)
  ELSE MarkerLine(st, line)

RECURSIVE PlaceholdersFrom(_, _, _)
PlaceholdersFrom(lines, i, st) ==
  IF i > Len(lines) THEN st.out
  ELSE PlaceholdersFrom(lines, i + 1, PlaceholderLine(st, lines[i]))
\* _normalize_placeholders
normalize_placeholders(lines) == PlaceholdersFrom(lines, 1, PlaceholderStart)

ScoreMarks == {"[3]"}
\* score_re
IsScore(line) ==
  LET u == Unspaced(line) IN
    /\ Len(u) = 5 /\ u[1] \in TargetCalls /\ u[2] \in Quotes
    /\ u[3] \in ScoreMarks /\ u[4] = u[2] /\ u[5] = ")"
ScoreOf(line) == Unspaced(line)[3]

RECURSIVE TrimBeforeScore(_)
\* the while loop that removes extra blank lines before a score
TrimBeforeScore(out) ==
  IF out = <<>> THEN out
  ELSE IF Strip(Last(out)) = Paragraph
    THEN IF Len(out) >= 2 /\ Strip(out[Len(out) - 1]) = Paragraph
         THEN TrimBeforeScore(Front(out))
         ELSE out
  ELSE IF Strip(Last(out)) = SmallParagraph THEN TrimBeforeScore(Front(out))
  ELSE out

\* a formatter that leaves score lines as they are
ScoreLine_plain(st, line) == [st EXCEPT !.out = Append(@, line)]

\* the body of the loop of _ensure_score_right_align; in_line_content is
\* written and never read
ScoreLine(st, line) ==
  LET stripped == Strip(line)
      s1 == IF st.need_extra_blank_line /\ stripped # <<>>
            THEN [out |-> Append(st.out, Paragraph),
                  need_extra_blank_line |-> FALSE]
            ELSE st
      trimmed == TrimBeforeScore(s1.out)
      broken == IF trimmed # <<>> /\ Strip(Last(trimmed)) # Paragraph
                THEN Append(trimmed, Paragraph) ELSE trimmed
      aligned == IF broken = <<>> \/ Strip(Last(broken)) # AlignRight
                 THEN Append(broken, AlignRight) ELSE broken
  IN IF stripped = Paragraph \/ stripped = SmallParagraph
     THEN [out |-> Append(st.out, line), need_extra_blank_line |-> FALSE]
     ELSE IF IsScore(line)
     THEN [out |-> aligned \o <<TextLine(<<ScoreOf(line)>>), Paragraph>>,
           need_extra_blank_line |-> TRUE]
     ELSE [s1 EXCEPT !.out = Append(@, line)]

RECURSIVE ScoreFrom(_, _, _)
ScoreFrom(lines, i, st) ==
  IF i > Len(lines) THEN st.out
  ELSE ScoreFrom(lines, i + 1, ScoreLine(st, lines[i]))
\* _ensure_score_right_align
ensure_score_right_align(lines) ==
  ScoreFrom(lines, 1, [out |-> <<>>, need_extra_blank_line |-> FALSE])

TabLines == {<<"insert_text(", "'", "\\t", "'", ")">>,
             <<"insert_text(", "\"", "\\t", "\"", ")">>}
\* the index of the first non-blank line after line i, Len(lines) + 1 if none
NextNonBlank(lines, i) ==
  CHOOSE j \in (i + 1)..(Len(lines) + 1) :
    /\ j <= Len(lines) => Strip(lines[j]) # <<>>
    /\ \A k \in (i + 1)..(j - 1) : Strip(lines[k]) = <<>>
\* _sanitize_tabs
sanitize_tabs(lines) ==
  [i \in 1..Len(lines) |->
     IF Strip(lines[i]) \in TabLines
     THEN LET j == NextNonBlank(lines, i) IN
            IF j <= Len(lines) /\ StartsWith(LStrip(lines[j]), "insert_equation(")
            THEN lines[i]
            ELSE TextLine(<<" ">>)
     ELSE lines[i]]

\* ------------------------------------- ScriptRunner.run: the passes in order
MaxLines == 3

\* The lines a script is made of: complete calls, and the damaged lines the
\* repair passes are written for.
Fragments ==
  { <<"insert_text(", "'", "a", "'", ")">>,
    <<"insert_text(", "'", "[3]", "'", ")">>,
    <<"insert_paragraph()">>,
    <<"insert_text(", "'", "a">>,
    <<"insert_equation(", "'", "a", "U+2032", "'", ")">>,
    <<"insert_equation(", "\"", "a">>,
    <<"insert_template(", "'", "box.hwp", "'", ")">>,
    <<"focus_placeholder(", "'", "###", "'", ")">>,
    <<"focus_placeholder(", "'", "@@@", "'", ")">>,
    <<"focus_placeholder(", "'", "&&&", "'", ")">>,
    <<"insert_text(", "'", "g.", "a", "'", ")">>,
    <<"insert_text(", "'", "(1)", "a", "'", ")">>,
    <<"insert_text(", "'", "\\t", "'", ")">>,
    <<"insert_text(", "'", "a", "'", ")", " + ",
      "insert_text(", "'", "a", "'", ")">> }

\* run() is entered with a script of 1..MaxLines lines, without indentation,
\* carriage returns, code fences or [CODE] markers (lines 584-597 then only
\* strip it).
InitPipe ==
  /\ InitWorker
  /\ gen = GenIdle /\ NoFallback /\ NoController /\ NoBackend
  /\ \E n \in 1..MaxLines : \E ls \in [1..n -> Fragments] :
       pipe = [ pc      |-> "L584",
                round   |-> 1,
                script  |-> Join(ls, "\n"),
                cleaned |-> Join(ls, "\n"),
                lines   |-> <<>>,
                first   |-> <<>> ]

PipeTo(pc, cleaned, lines) ==
  /\ pipe' = [pipe EXCEPT !.pc = pc, !.cleaned = cleaned, !.lines = lines]
  /\ UNCHANGED <<typing_worker, workers, jobs, gen, fb, hwp, fs>>

\* lines 584-601: an empty script is not run
StripScript ==
  /\ pipe.pc = "L584"
  /\ PipeTo(IF Strip(pipe.cleaned) = <<>> THEN "L601" ELSE "L604",
            Strip(pipe.cleaned), pipe.lines)
\* line 604
SanitizeMultilineStrings ==
  /\ pipe.pc = "L604"
  /\ PipeTo("L606", sanitize_multiline_strings(pipe.cleaned), pipe.lines)
\* line 606
NormalizeInlineCalls ==
  /\ pipe.pc = "L606"
  /\ PipeTo("L608", normalize_inline_calls(pipe.cleaned), pipe.lines)
\* line 608
SanitizeEquationStrings ==
  /\ pipe.pc = "L608"
  /\ PipeTo("L610", sanitize_unterminated_equation_strings(pipe.cleaned),
            pipe.lines)
\* line 610
NormalizePrimes ==
  /\ pipe.pc = "L610"
  /\ PipeTo("L612", normalize_primes_in_equations(pipe.cleaned), pipe.lines)
\* line 612, the argument of the for statement
RepairMultilineCalls ==
  /\ pipe.pc = "L612"
  /\ PipeTo("L613", pipe.cleaned,
            repair_multiline_calls(SplitLines(pipe.cleaned)))
\* lines 612-614
SplitConcatCalls ==
  /\ pipe.pc = "L613"
  /\ PipeTo("L615", pipe.cleaned, ExpandFrom(pipe.lines, 1))
\* line 615
NormalizePlaceholders ==
  /\ pipe.pc = "L615"
  /\ PipeTo("L616", pipe.cleaned, normalize_placeholders(pipe.lines))
\* line 616
EnsureScoreRightAlign ==
  /\ pipe.pc = "L616"
  /\ PipeTo("L617", pipe.cleaned, ensure_score_right_align(pipe.lines))
\* line 617
SanitizeTabs ==
  /\ pipe.pc = "L617"
  /\ PipeTo("L619", pipe.cleaned, sanitize_tabs(pipe.lines))
\* line 619
JoinLines ==
  /\ pipe.pc = "L619"
  /\ PipeTo("L621", Strip(Join(pipe.lines, "\n")), pipe.lines)

\* run() is entered again, with the text that line 619 produced
RunOnOutput ==
  /\ pipe.pc = "L621" /\ pipe.round = 1
  /\ pipe' = [pipe EXCEPT !.pc = "L584", !.round = 2, !.script = pipe.cleaned,
                          !.first = pipe.lines, !.lines = <<>>]
  /\ UNCHANGED <<typing_worker, workers, jobs, gen, fb, hwp, fs>>

NextPipe ==
  \/ StripScript
  \/ SanitizeMultilineStrings
  \/ NormalizeInlineCalls
  \/ SanitizeEquationStrings
  \/ NormalizePrimes
  \/ RepairMultilineCalls
  \/ SplitConcatCalls
  \/ NormalizePlaceholders
  \/ EnsureScoreRightAlign
  \/ SanitizeTabs
  \/ JoinLines
  \/ RunOnOutput

SpecPipe == InitPipe /\ [][NextPipe]_vars

\* ------------------------------------------ the line passes, one at a time
MaxPassLines == 5

\* run() has reached the pass that stands at line pc, with the line list ls
PassAt(pc, ls) ==
  /\ InitWorker
  /\ gen = GenIdle /\ NoFallback /\ NoController /\ NoBackend
  /\ pipe = [ pc      |-> pc,
              round   |-> 1,
              script  |-> Join(ls, "\n"),
              cleaned |-> Join(ls, "\n"),
              lines   |-> ls,
              first   |-> <<>> ]

\* the line lists of 1..MaxPassLines lines over a set of lines
LineLists(fragments) ==
  UNION { [1..n -> fragments] : n \in 1..MaxPassLines }

\* The lines _normalize_placeholders tells apart: a template, the three
\* markers, plain content, a box item, a choice, the justify declaration.
PlaceholderFragments ==
  { <<"insert_template(", "'", "box.hwp", "'", ")">>,
    FocusLine("###"), FocusLine("@@@"), FocusLine("&&&"),
    TextLine(<<"a">>), TextLine(<<"g.", "a">>), TextLine(<<"(1)", "a">>),
    AlignJustify }

InitPlaceholders ==
  \E ls \in LineLists(PlaceholderFragments) : PassAt("L615", ls)
SpecPlaceholders == InitPlaceholders /\ [][NormalizePlaceholders]_vars

\* the line list the pass under study was given
PassInput == SplitLines(pipe.script)

\* The lines _ensure_score_right_align tells apart: content, a score as text
\* and as equation, the two paragraph breaks, a blank line, the right-align
\* declaration.
ScoreFragments ==
  { TextLine(<<"a">>), TextLine(<<"[3]">>),
    <<"insert_equation(", "'", "[3]", "'", ")">>,
    Paragraph, SmallParagraph, <<>>, AlignRight }

InitScore == \E ls \in LineLists(ScoreFragments) : PassAt("L616", ls)
SpecScore == InitScore /\ [][EnsureScoreRightAlign]_vars

\* The lines _sanitize_tabs tells apart: the tab typed with either quote, the
\* two equation instructions, content, a blank line.
TabFragments ==
  TabLines \cup
  { <<"insert_equation(", "'", "a", "'", ")">>,
    <<"insert_latex_equation(", "'", "a", "'", ")">>,
    TextLine(<<"a">>), <<>> }

InitTabs == \E ls \in LineLists(TabFragments) : PassAt("L617", ls)
SpecTabs == InitTabs /\ [][SanitizeTabs]_vars

\* The lines _repair_multiline_calls tells apart: a closed call with either
\* quote, a double-quoted argument that holds a single quote, a call left
\* open with either quote, the rest of an argument with its closing quote, a
\* line with blanks around it, a call with an odd number of quotes that ends
\* in a quote and ")".
RepairFragments ==
  { TextLine(<<"a">>),
    <<"insert_text(", "\"", "'", "\"", ")">>,
    <<"insert_text(", "'", "a">>,
    <<"insert_equation(", "\"", "a">>,
    <<"a", "'", ")">>,
    <<" ", "a", " ">>,
    <<"insert_text(", "'", "a", "'", "'", ")">> }

InitRepair == \E ls \in LineLists(RepairFragments) : PassAt("L612", ls)
SpecRepair == InitRepair /\ [][RepairMultilineCalls]_vars

\* --------------------------------------- ScriptRunner._execute_fallback
\* Here a script is a sequence of characters in which an instruction name
\* with its "(" is one character; "9" is a digit, "True" a word.
MaxTextLen == 3

FbNoArgs ==
  {"insert_paragraph(", "insert_box(", "exit_box(", "insert_view_box(",
   "insert_small_paragraph(", "set_align_right_next_line(",
   "set_align_justify_next_line(", "set_table_border_white("}
FbOneStr ==
  {"insert_text(", "insert_equation(", "insert_latex_equation(",
   "insert_template(", "focus_placeholder("}
FbOneInt == {"set_char_width_ratio("}
FbNames ==
  FbNoArgs \cup FbOneStr \cup FbOneInt
  \cup {"set_bold(", "set_underline(", "insert_table("}

\* the characters the scripts of the fallback specifications are made of
FbAlphabet ==
  {"insert_text(", "insert_paragraph(", "set_char_width_ratio(",
   "(", ")", "'", "\"", "\\", "a", "9"}

\* s of lines 537-545
OneStrArg(arg_str) ==
  IF arg_str # <<>> /\ arg_str[1] \in Quotes
  THEN IF \E k \in 2..Len(arg_str) : arg_str[k] = arg_str[1]
       THEN SubSeq(arg_str, 2,
                   (CHOOSE k \in 2..Len(arg_str) :
                      /\ arg_str[k] = arg_str[1]
                      /\ \A j \in 2..(k - 1) : arg_str[j] # arg_str[1]) - 1)
       ELSE Tail(arg_str)
  ELSE arg_str

\* int(float(arg_str)) succeeds
IsNumber(arg_str) ==
  arg_str # <<>> /\ \A k \in 1..Len(arg_str) : arg_str[k] = "9"

\* "true" in arg_str.lower()
HasTrue(arg_str) == Contains(arg_str, "True")

\* The sink operation the try block reaches for matched and arg_str, as
\* <<name, argument>>; <<>> when the inner try of lines 557-572 gives up
\* before any call.
FallbackCallOf(matched, arg_str) ==
  IF matched \in FbNoArgs THEN <<matched, <<>>>>
  ELSE IF matched \in FbOneStr THEN <<matched, OneStrArg(arg_str)>>
  ELSE IF matched = "set_bold(" THEN <<matched, HasTrue(arg_str)>>
  ELSE IF matched = "set_underline("
    THEN IF arg_str = <<>> THEN <<matched, <<>>>>
         ELSE <<matched, HasTrue(arg_str)>>
  ELSE IF matched \in FbOneInt
    THEN IF arg_str = <<>> THEN <<matched, <<>>>>
         ELSE IF IsNumber(arg_str) THEN <<matched, arg_str>>
         ELSE <<>>
  ELSE <<>>
\* the inner try blocks of lines 557-572 keep a failure of the sink silent
SilentFailure(matched) == matched \in FbOneInt \cup {"insert_table("}

\* what leaves the try block of lines 530-574 when exc is raised in it
fallback_except_reraise(exc) == exc
fallback_except(exc) == "none"

\* _execute_fallback is entered with a text of 0..MaxTextLen characters
FbStart(text) ==
  [ pc |-> "L479", text |-> text, i |-> 0, cancel |-> FALSE,
    matched |-> "none", args |-> <<>>, depth |-> 0, quote |-> "none",
    escaped |-> FALSE,
    calls |-> <<>>,     \* the sink operations dispatched, in order
    log   |-> <<>>,     \* the names log_fn was given, in order
    exc   |-> "none" ]  \* what _execute_fallback raised to its caller

FbOnly ==
  /\ InitWorker
  /\ gen = GenIdle /\ pipe = PipeIdle /\ NoController /\ NoBackend
FbKeep == UNCHANGED <<typing_worker, workers, jobs, gen, pipe, hwp, fs>>

InitFallback ==
  /\ FbOnly
  /\ \E n \in 0..MaxTextLen : \E text \in [1..n -> FbAlphabet] :
       fb = FbStart(text)

\* cancel_check starts to answer true
FbCancel ==
  /\ fb.pc \in {"L479", "L496", "L530"} /\ ~fb.cancel
  /\ fb' = [fb EXCEPT !.cancel = TRUE]
  /\ FbKeep

\* lines 479-491: the head of the outer loop
FbWhile ==
  /\ fb.pc = "L479"
  /\ fb' = IF fb.i >= Len(fb.text) THEN [fb EXCEPT !.pc = "return"]
           ELSE IF fb.cancel
             THEN [fb EXCEPT !.pc = "raised", !.exc = "ScriptCancelled"]
           ELSE IF fb.text[fb.i + 1] \in FbNames
             THEN [fb EXCEPT !.pc = "L496", !.matched = fb.text[fb.i + 1],
                             !.i = @ + 1, !.args = <<>>, !.depth = 1,
                             !.quote = "none", !.escaped = FALSE]
           ELSE [fb EXCEPT !.i = @ + 1]
  /\ FbKeep

\* lines 496-527: one round of the inner loop, or its end
FbScan ==
  /\ fb.pc = "L496"
  /\ fb' =
       IF ~(fb.i < Len(fb.text) /\ fb.depth > 0) THEN [fb EXCEPT !.pc = "L530"]
       ELSE LET ch == fb.text[fb.i + 1]
                take == [fb EXCEPT !.args = Append(@, ch), !.i = @ + 1]
            IN IF fb.escaped THEN [take EXCEPT !.escaped = FALSE]
               ELSE IF ch = "\\" THEN [take EXCEPT !.escaped = TRUE]
               ELSE IF fb.quote # "none"
                 THEN IF ch = fb.quote THEN [take EXCEPT !.quote = "none"]
                      ELSE take
               ELSE IF ch \in Quotes THEN [take EXCEPT !.quote = ch]
               ELSE IF ch = "(" \/ ch \in FbNames
                 THEN [take EXCEPT !.depth = @ + 1]
               ELSE IF ch = ")"
                 THEN IF fb.depth = 1
                      THEN [fb EXCEPT !.depth = 0, !.i = @ + 1]
                      ELSE [take EXCEPT !.depth = @ - 1]
               ELSE take
  /\ FbKeep

\* lines 528-574: the try block and its except clause
FbDispatch ==
  /\ fb.pc = "L530"
  /\ \E sink \in {"ok", "HwpControllerError"} :
       LET call == FallbackCallOf(fb.matched, Strip(fb.args))
           raised == IF fb.cancel THEN "ScriptCancelled"
                     ELSE IF call = <<>> \/ SilentFailure(fb.matched)
                       THEN "none"
                     ELSE IF sink = "ok" THEN "none" ELSE sink
           left == fallback_except(raised)
       IN fb' = [fb EXCEPT
                   !.calls = IF fb.cancel \/ call = <<>> THEN @
                             ELSE Append(@, call \o <<sink>>),
                   !.log = IF raised # "none" /\ left = "none"
                           THEN Append(@, fb.matched) ELSE @,
                   !.exc = left,
                   !.pc = IF left = "none" THEN "L479" ELSE "raised"]
  /\ FbKeep

FbStep == FbWhile \/ FbScan \/ FbDispatch
NextFallback == FbCancel \/ FbStep
SpecFallback == InitFallback /\ [][NextFallback]_vars
\* The thread that runs the parser keeps running.
FairSpecFallback == SpecFallback /\ WF_vars(FbStep)

\* TypingWorker.run around a runner.run whose exec raised SyntaxError: when
\* _execute_fallback returns, run() returns and the worker emits
\* item_finished(idx) (gui_app.py line 1268)
FbItemFinished ==
  /\ fb.pc = "return"
  /\ fb' = [fb EXCEPT !.pc = "item_finished"]
  /\ FbKeep
\* ScriptCancelled leaves run() and the worker emits cancelled (lines 1236-1238)
FbItemCancelled ==
  /\ fb.pc = "raised" /\ fb.exc = "ScriptCancelled"
  /\ fb' = [fb EXCEPT !.pc = "cancelled"]
  /\ FbKeep

NextFallbackItem == NextFallback \/ FbItemFinished \/ FbItemCancelled
SpecFallbackItem == InitFallback /\ [][NextFallbackItem]_vars

\* ------------------------------------------------ HwpController (Composer)
\* The controller is a record of the fields of HwpController that steer the
\* layout, together with the calls the running operation made on the HWP
\* automation object (out, as <<call, argument, succeeded>>) and the exception
\* it raised (exc). Text is a sequence of characters; "\t" is a tab, "\\t" the
\* two characters backslash and t. Every operation is given the set of sink
\* calls that raise while it runs.
SinkCalls ==
  {"InsertText", "KeyIndicator", "ParagraphShapeAlign",
   "Run.ParagraphShapeAlign", "BreakPara", "CharShape", "EquationControl",
   "InsertFile", "TableCreate", "MoveToCell", "Run.MoveToCell",
   "TableLowerCell", "MoveDown", "CloseEx"}

\* __init__, and connect() done
NewController ==
  [ pc |-> "ready",
    in_condition_box |-> FALSE, box_line_start |-> FALSE,
    line_start |-> TRUE, first_line_written |-> FALSE,
    align_right_next_line |-> FALSE, line_right_aligned |-> FALSE,
    align_justify_next_line |-> FALSE, line_justify_aligned |-> FALSE,
    last_was_equation |-> FALSE,
    op |-> <<"connect">>, out |-> <<>>, exc |-> "none" ]

\* a call on the automation object: it is recorded, and it raises if fails
\* holds it
Sink(c, call, arg, fails) ==
  [c EXCEPT !.out = Append(@, <<call, arg, call \notin fails>>),
            !.exc = IF call \in fails THEN "Exception" ELSE @]
Raised(c) == c.exc # "none"
\* except Exception: pass
Swallow(c) == [c EXCEPT !.exc = "none"]
\* except Exception as exc: raise HwpControllerError(...) from exc
Wrap(c) ==
  [c EXCEPT !.exc = IF @ = "none" THEN "none" ELSE "HwpControllerError"]

\* a statement is run once and the statements after it see its result: F of
\* the value of e
With(e, F(_)) == CHOOSE r \in { F(x) : x \in {e} } : TRUE
\* the next statement runs only if the one before did not raise
Then(c, F(_)) == With(c, LAMBDA s : IF Raised(s) THEN s ELSE F(s))

\* _insert_text_raw
insert_text_raw(c, text, fails) ==
  IF text = <<>> THEN c
  ELSE With(Sink(c, "InsertText", text, fails),
            LAMBDA tried :
              IF Raised(tried)
              THEN Sink(Swallow(tried), "KeyIndicator", text, fails)
              ELSE tried)

\* _set_paragraph_align
set_paragraph_align(c, align, fails) ==
  With(Sink(c, "ParagraphShapeAlign", <<align>>, fails),
       LAMBDA tried :
         IF Raised(tried)
         THEN Swallow(Sink(Swallow(tried), "Run.ParagraphShapeAlign",
                           <<align>>, fails))
         ELSE tried)

\* _maybe_insert_line_indent
maybe_insert_line_indent(c, spaces, fails) ==
  IF c.in_condition_box THEN c
  ELSE IF c.line_start /\ c.first_line_written
  THEN Then(insert_text_raw(c, [i \in 1..spaces |-> " "], fails),
            LAMBDA typed : [typed EXCEPT !.line_start = FALSE])
  ELSE c

\* insert_paragraph
insert_paragraph(c, fails) ==
  LET Broken(broken) ==
        [broken EXCEPT
           !.box_line_start = IF c.in_condition_box THEN TRUE ELSE @,
           !.line_start = TRUE]
      LeftAfterRight(s1) ==
        IF s1.line_right_aligned
        THEN [set_paragraph_align(s1, "left", fails)
                EXCEPT !.line_right_aligned = FALSE]
        ELSE s1
      LeftAfterJustify(s2) ==
        IF s2.line_justify_aligned
        THEN [set_paragraph_align(s2, "left", fails)
                EXCEPT !.line_justify_aligned = FALSE]
        ELSE s2
  IN Wrap(Then(Then(Then(Sink(c, "BreakPara", <<>>, fails), Broken),
                    LeftAfterRight),
               LeftAfterJustify))

\* the two if statements "Apply one-line alignment BEFORE indentation logic"
apply_one_line_alignment(c, fails) ==
  LET Justify(s1) ==
        IF s1.line_start /\ s1.align_justify_next_line
        THEN [set_paragraph_align(s1, "justify", fails)
                EXCEPT !.align_justify_next_line = FALSE,
                       !.line_justify_aligned = TRUE]
        ELSE s1
  IN With(IF c.line_start /\ c.align_right_next_line
          THEN [set_paragraph_align(c, "right", fails)
                  EXCEPT !.align_right_next_line = FALSE,
                         !.line_right_aligned = TRUE]
          ELSE c,
          Justify)

RECURSIVE LStripIndent(_)
\* text.lstrip(" \t")
LStripIndent(text) ==
  IF text # <<>> /\ Head(text) \in {" ", "\t"} THEN LStripIndent(Tail(text))
  ELSE text

\* line 257 without its test: no blank line above a tab-indented line
blank_line_above_never(c, text) == FALSE
\* line 257: "If a tab-indented formula line starts, insert a blank line
\* above it"
blank_line_above(c, text) ==
  c.line_start /\ StartsWith(text, "\t") /\ c.first_line_written

\* insert_text
insert_text(c, text0, fails) ==
  IF text0 = <<>> THEN c
  ELSE
  LET text1 == IF StartsWith(text0, "\\t") THEN <<"\t">> \o Tail(text0)
               ELSE text0
      \* lines 271-300, after the one-line alignment
      Type(s0, s1) ==
        LET skip_auto_indent_right == s0.line_start /\ s0.align_right_next_line
            s2 == IF s1.line_start
                     /\ (StartsWith(text1, "\t") \/ StartsWith(text1, " "))
                  THEN [s1 EXCEPT !.line_start = FALSE] ELSE s1
            text2 == IF skip_auto_indent_right THEN LStripIndent(text1)
                     ELSE text1
            text3 == IF s2.last_was_equation /\ StartsWith(text2, " ")
                     THEN Tail(text2) ELSE text2
            prefix == s2.in_condition_box /\ s2.box_line_start
                      /\ ~StartsWith(text3, " ")
            s3 == IF prefix THEN [s2 EXCEPT !.box_line_start = FALSE] ELSE s2
        IN Then(insert_text_raw(s3, IF prefix THEN <<" ">> \o text3
                                    ELSE text3, fails),
                LAMBDA typed :
                  [typed EXCEPT !.line_start = FALSE,
                                !.last_was_equation = FALSE,
                                !.first_line_written = TRUE])
  IN Then(IF blank_line_above(c, text1) THEN insert_paragraph(c, fails)
          ELSE c,
          LAMBDA s0 : With(apply_one_line_alignment(s0, fails),
                           LAMBDA s1 : Type(s0, s1)))

RECURSIVE LStripTabs(_)
\* content.lstrip("\t")
LStripTabs(text) ==
  IF text # <<>> /\ Head(text) = "\t" THEN LStripTabs(Tail(text)) ELSE text

\* insert_equation
insert_equation(c, hwpeqn, fails) ==
  LET tabbed == c.line_start /\ StartsWith(hwpeqn, "\t")
      content == IF tabbed THEN LStripTabs(hwpeqn) ELSE hwpeqn
      \* lines 472-486, after the one-line alignment
      Control(s0, s1) ==
        Then(Then(IF s0.line_start /\ s0.align_right_next_line THEN s1
                  ELSE maybe_insert_line_indent(s1, 2, fails),
                  LAMBDA s2 : Sink(s2, "EquationControl", content, fails)),
             LAMBDA s3 : [s3 EXCEPT !.line_start = FALSE,
                                    !.last_was_equation = TRUE,
                                    !.first_line_written = TRUE])
  IN Then(IF tabbed THEN insert_text(c, <<"\t">>, fails) ELSE c,
          LAMBDA s0 : With(apply_one_line_alignment(s0, fails),
                           LAMBDA s1 : Control(s0, s1)))

\* _set_font_size_pt
set_font_size_pt(c, fails) == Wrap(Sink(c, "CharShape", <<>>, fails))
\* _apply_box_text_style
apply_box_text_style(c, fails) == Swallow(Sink(c, "CharShape", <<>>, fails))
\* _insert_box_raw
insert_box_raw(c, fails) == Sink(c, "TableCreate", <<>>, fails)

\* _move_to_table_cell: the controller after it, and what it returns
move_to_table_cell(c, fails) ==
  With(Sink(c, "MoveToCell", <<>>, fails),
       LAMBDA tried :
         IF Raised(tried)
         THEN Swallow(Sink(Swallow(tried), "Run.MoveToCell", <<>>, fails))
         ELSE tried)
MovedToCell(fails) == ~({"MoveToCell", "Run.MoveToCell"} \subseteq fails)

\* _try_insert_template: the template file may be missing ("exists" in fails);
\* the variants of the insert-file call are one call here, which fails when
\* all of them fail
TemplateInserted(fails) == "exists" \notin fails /\ "InsertFile" \notin fails
try_insert_template(c, name, fails) ==
  IF "exists" \in fails THEN c
  ELSE Swallow(Sink(c, "InsertFile", <<name>>, fails))

\* insert_small_paragraph_3px
insert_small_paragraph_3px(c, fails) ==
  Then(Then(Then(set_font_size_pt(c, fails),
                 LAMBDA s : Swallow(insert_text(s, <<" ">>, fails))),
            LAMBDA s : insert_paragraph(s, fails)),
       LAMBDA s : set_font_size_pt(s, fails))

\* the assignments that open a box
InBox(c) ==
  [c EXCEPT !.in_condition_box = TRUE, !.box_line_start = TRUE,
            !.line_start = FALSE, !.first_line_written = TRUE]

\* the template was inserted: the cursor goes into its cell, or a table is
\* drawn for it
template_cell(t, fails) ==
  With(move_to_table_cell(t, fails),
       LAMBDA m1 :
         IF MovedToCell(fails) THEN m1
         ELSE Then(insert_box_raw(m1, fails),
                   LAMBDA s : move_to_table_cell(s, fails)))
\* no template: a table is drawn and the cursor goes into its cell
drawn_cell(t, fails) ==
  Then(Then(maybe_insert_line_indent(t, 1, fails),
            LAMBDA s : insert_box_raw(s, fails)),
       LAMBDA s : move_to_table_cell(s, fails))

\* insert_box
insert_box(c, fails) ==
  LET \* lines 768-778
      ByTemplate(t) ==
        Then(template_cell(t, fails),
             LAMBDA s : apply_box_text_style(InBox(s), fails))
      \* lines 779-791
      ByHand(t) ==
        Then(drawn_cell(t, fails),
             LAMBDA s : Swallow(insert_small_paragraph_3px(
                          apply_box_text_style(InBox(s), fails), fails)))
  IN Wrap(With(try_insert_template(c, "box_template_noheader.hwp", fails),
               LAMBDA t : IF TemplateInserted(fails) THEN ByTemplate(t)
                          ELSE ByHand(t)))

\* insert_view_box
insert_view_box(c, fails) ==
  LET \* lines 801-813
      ByTemplate(t) ==
        Then(template_cell(t, fails),
             LAMBDA s : set_paragraph_align(
                          apply_box_text_style(InBox(s), fails),
                          "justify", fails))
      \* lines 822-846: the header, in a try block that swallows everything
      Break(u) ==
        With(Sink(u, "BreakPara", <<>>, fails),
             LAMBDA broken :
               IF Raised(broken) THEN insert_paragraph(Swallow(broken), fails)
               ELSE broken)
      Header(s) ==
        Swallow(
          Then(Then(With(apply_box_text_style(
                           set_paragraph_align(s, "center", fails), fails),
                         LAMBDA u : insert_text(u, <<"<view>">>, fails)),
                    Break),
               LAMBDA u : set_paragraph_align(u, "left", fails)))
      \* lines 815-819, 848-851
      ByHand(t) ==
        Then(Then(drawn_cell(t, fails),
                  LAMBDA s : [s EXCEPT !.line_start = FALSE,
                                       !.first_line_written = TRUE]),
             LAMBDA s : set_paragraph_align(
                          apply_box_text_style(Header(s), fails),
                          "justify", fails))
  IN With(try_insert_template(c, "box_template.hwp", fails),
          LAMBDA t : IF TemplateInserted(fails) THEN ByTemplate(t)
                     ELSE ByHand(t))

\* an exit that leaves the box fields as they are
BoxLeftOpen(s) == s

\* exit_box, the two assignments that stand on each of its three ways out
\* (lines 975-976, 983-984, 986-987)
BoxClosed(s) == [s EXCEPT !.in_condition_box = FALSE,
                          !.box_line_start = FALSE]

\* exit_box
exit_box(c, fails) ==
  LET \* lines 964-972
      spacer == IF c.in_condition_box
                THEN Swallow(
                       Then(Then(Then(set_font_size_pt(c, fails),
                                      LAMBDA s : insert_text(s, <<" ">>, fails)),
                                 LAMBDA s : insert_paragraph(s, fails)),
                            LAMBDA s : set_font_size_pt(s, fails)))
                ELSE c
      \* lines 973-980
      Lower(s) == Then(Sink(s, "TableLowerCell", <<>>, fails),
                       LAMBDA u : Sink(u, "MoveDown", <<>>, fails))
      \* lines 981-989
      Close(s) == Then(Sink(s, "CloseEx", <<>>, fails),
                       LAMBDA u : Sink(u, "MoveDown", <<>>, fails))
  IN With(With(spacer, Lower),
          LAMBDA lower : IF ~Raised(lower) THEN BoxClosed(lower)
                         ELSE Wrap(BoxClosed(Close(Swallow(lower)))))

\* the cell_data of the insert_table calls of the model: none, one text
\* cell, one equation cell
CellData == {"none", "text", "EQ:"}

\* a finally clause that leaves the cursor in the last cell of the table
insert_table_finally_stays(tried, fails) == tried

\* insert_table, the finally clause when exit_after is set: leave the table,
\* ask for left alignment, start a line; the exception of the try block, if
\* any, goes on
insert_table_finally(tried, fails) ==
  With(Swallow(tried),
       LAMBDA t : [set_paragraph_align(Swallow(exit_box(t, fails)),
                                       "left", fails)
                     EXCEPT !.line_start = TRUE, !.exc = tried.exc])

\* insert_table, for a table of one row and one column
insert_table(c, cell_data, exit_after, fails) ==
  LET made == Then(Then(maybe_insert_line_indent(c, 1, fails),
                        LAMBDA s : Sink(s, "TableCreate", <<>>, fails)),
                   LAMBDA s : [s EXCEPT !.line_start = FALSE,
                                        !.first_line_written = TRUE])
      Fill(s) ==
        IF cell_data = "none" THEN s
        ELSE With(apply_box_text_style(s, fails),
                  LAMBDA styled :
                    IF cell_data = "text"
                    THEN insert_text(styled, <<"a">>, fails)
                    ELSE insert_equation(styled, <<"a">>, fails))
  IN With(Wrap(Then(made, Fill)),
          LAMBDA tried : IF exit_after THEN insert_table_finally(tried, fails)
                         ELSE tried)

\* ------------------------------------------- the Composer, driven by calls
\* The interpreter calls one operation of the controller at a time: from
\* "ready" an operation runs to its end ("returned", with its calls in out and
\* its exception in exc), then the interpreter goes on to its next instruction
\* (in the fallback parser also after an exception).
Texts == { <<>>, <<"a">>, <<" ", "a">>, <<"\t", "a">>, <<"\\t">>, <<" ">> }
Equations == { <<"a">>, <<"\t", "a">> }

HwpKeep == UNCHANGED <<typing_worker, workers, jobs, gen, pipe, fb, fs>>
InitComposer ==
  /\ InitWorker
  /\ gen = GenIdle /\ pipe = PipeIdle /\ NoFallback /\ NoBackend
  /\ hwp = NewController

\* the controller when the operation op ran to c
Returned(op, c) == [c EXCEPT !.pc = "returned", !.op = op]
Ready == hwp.pc = "ready"

\* the interpreter goes on: out and exc are the locals of the finished call
NextInstruction ==
  /\ hwp.pc = "returned"
  /\ hwp' = [hwp EXCEPT !.pc = "ready", !.out = <<>>, !.exc = "none",
                        !.op = <<>>]
  /\ HwpKeep

SetAlignRightNextLine ==
  /\ Ready
  /\ hwp' = Returned(<<"set_align_right_next_line">>,
                     [hwp EXCEPT !.align_right_next_line = TRUE])
  /\ HwpKeep
SetAlignJustifyNextLine ==
  /\ Ready
  /\ hwp' = Returned(<<"set_align_justify_next_line">>,
                     [hwp EXCEPT !.align_justify_next_line = TRUE])
  /\ HwpKeep
InsertText ==
  /\ Ready
  /\ \E text \in Texts :
       \E fails \in SUBSET {"InsertText", "KeyIndicator", "BreakPara",
                            "ParagraphShapeAlign", "Run.ParagraphShapeAlign"} :
         hwp' = Returned(<<"insert_text", text>>,
                         insert_text(hwp, text, fails))
  /\ HwpKeep
InsertParagraph ==
  /\ Ready
  /\ \E fails \in SUBSET {"BreakPara", "ParagraphShapeAlign",
                          "Run.ParagraphShapeAlign"} :
       hwp' = Returned(<<"insert_paragraph">>, insert_paragraph(hwp, fails))
  /\ HwpKeep
\* insert_small_paragraph returns at once
InsertSmallParagraph ==
  /\ Ready
  /\ hwp' = Returned(<<"insert_small_paragraph">>, hwp)
  /\ HwpKeep
InsertEquation ==
  /\ Ready
  /\ \E eq \in Equations :
       \E fails \in SUBSET {"EquationControl", "InsertText", "KeyIndicator",
                            "ParagraphShapeAlign"} :
         hwp' = Returned(<<"insert_equation", eq>>,
                         insert_equation(hwp, eq, fails))
  /\ HwpKeep
InsertBox ==
  /\ Ready
  /\ \E fails \in SUBSET {"exists", "InsertFile", "MoveToCell",
                          "Run.MoveToCell", "TableCreate", "CharShape",
                          "BreakPara"} :
       hwp' = Returned(<<"insert_box">>, insert_box(hwp, fails))
  /\ HwpKeep
InsertViewBox ==
  /\ Ready
  /\ \E fails \in SUBSET {"exists", "InsertFile", "MoveToCell",
                          "Run.MoveToCell", "TableCreate", "InsertText",
                          "KeyIndicator", "BreakPara"} :
       hwp' = Returned(<<"insert_view_box">>, insert_view_box(hwp, fails))
  /\ HwpKeep
InsertTable ==
  /\ Ready
  /\ \E cell_data \in CellData : \E exit_after \in BOOLEAN :
       \E fails \in SUBSET {"TableCreate", "InsertText", "KeyIndicator",
                            "EquationControl", "TableLowerCell", "CloseEx"} :
         hwp' = Returned(<<"insert_table", cell_data, exit_after>>,
                         insert_table(hwp, cell_data, exit_after, fails))
  /\ HwpKeep
ExitBox_ ==
  /\ Ready
  /\ \E fails \in SUBSET {"CharShape", "InsertText", "KeyIndicator",
                          "BreakPara", "TableLowerCell", "MoveDown",
                          "CloseEx"} :
       hwp' = Returned(<<"exit_box">>, exit_box(hwp, fails))
  /\ HwpKeep

NextComposer ==
  \/ NextInstruction
  \/ SetAlignRightNextLine
  \/ SetAlignJustifyNextLine
  \/ InsertText
  \/ InsertParagraph
  \/ InsertSmallParagraph
  \/ InsertEquation
  \/ InsertBox
  \/ InsertViewBox
  \/ InsertTable
  \/ ExitBox_
SpecComposer == InitComposer /\ [][NextComposer]_vars

\* ------------------------------------------------ ScriptRunner.run: exec
\* exec(cleaned, env, {}) compiles the whole text as Python and runs its
\* statements one after the other: names are looked up in the locals, then in
\* env, then in env["__builtins__"]. A script is a sequence of statements
\* <<kind, name, expression, body>>, an expression <<kind, a, b>> and a value
\* <<type, payload>>.
MaxStmts == 2

\* the names bound in env (lines 663-679)
env ==
  {"insert_text", "insert_paragraph", "insert_small_paragraph",
   "insert_equation", "insert_latex_equation", "insert_template",
   "focus_placeholder", "insert_box", "exit_box", "insert_view_box",
   "insert_table", "set_bold", "set_underline", "set_char_width_ratio",
   "set_table_border_white", "set_align_right_next_line",
   "set_align_justify_next_line"}
SAFE_BUILTINS ==
  {"range", "len", "min", "max", "enumerate", "sum", "print", "abs"}

\* the names the scripts of the model assign to
ExecLocals == {"x", "g", "i"}
Unbound == <<"unbound", "">>
ExecError(v) == v[1] = "error"

\* insert_text('a'), insert_paragraph(), insert_text(x),
\* insert_text(str(1)), insert_text(g['__name__'])
CallStmts ==
  { <<"expr", "insert_text", <<"str", "a", "">>, <<>>>>,
    <<"expr", "insert_paragraph", <<>>, <<>>>>,
    <<"expr", "insert_text", <<"name", "x", "">>, <<>>>>,
    <<"expr", "insert_text", <<"call", "str", "1">>, <<>>>>,
    <<"expr", "insert_text", <<"item", "g", "__name__">>, <<>>>> }
\* for i in range(2): insert_text('a'); if len('ab'): insert_paragraph();
\* if len(''): insert_paragraph(); x = 'b'; g = insert_text.__globals__;
\* import os; and a line that does not compile
Stmts ==
  CallStmts \cup
  { <<"for", "i", <<"call", "range", "2">>,
      <<"expr", "insert_text", <<"str", "a", "">>, <<>>>> >>,
    <<"if", "", <<"call", "len", "ab">>,
      <<"expr", "insert_paragraph", <<>>, <<>>>> >>,
    <<"if", "", <<"call", "len", "">>,
      <<"expr", "insert_paragraph", <<>>, <<>>>> >>,
    <<"assign", "x", <<"str", "b", "">>, <<>>>>,
    <<"assign", "g", <<"attr", "insert_text", "__globals__">>, <<>>>>,
    <<"import", "os", <<>>, <<>>>>,
    <<"invalid", "", <<>>, <<>>>> }

\* name lookup: locals, globals (env), builtins
Lookup(n, locals) ==
  IF n \in ExecLocals /\ locals[n] # Unbound THEN locals[n]
  ELSE IF n \in env THEN <<"function", n>>
  ELSE IF n \in SAFE_BUILTINS THEN <<"builtin", n>>
  ELSE <<"error", "NameError">>

\* len of the string literals of the model
StrLen(s) == IF s = "" THEN "0" ELSE "2"

\* the value of an expression
Eval(e, locals) ==
  CASE e[1] = "str" -> <<"str", e[2]>>
    [] e[1] = "name" -> Lookup(e[2], locals)
    [] e[1] = "attr" ->
         LET v == Lookup(e[2], locals)
         IN IF ExecError(v) THEN v
            ELSE IF v[1] = "function" /\ e[3] = "__globals__"
            THEN <<"dict", "script_runner.__dict__">>
            ELSE <<"error", "AttributeError">>
    [] e[1] = "item" ->
         LET v == Lookup(e[2], locals)
         IN IF ExecError(v) THEN v
            ELSE IF v[1] = "dict" /\ e[3] = "__name__"
            THEN <<"str", "script_runner">>
            ELSE IF v[1] = "dict" THEN <<"error", "KeyError">>
            ELSE <<"error", "TypeError">>
    [] e[1] = "call" ->
         LET f == Lookup(e[2], locals)
         IN IF ExecError(f) THEN f
            ELSE IF f = <<"builtin", "len">> THEN <<"int", StrLen(e[3])>>
            ELSE IF f = <<"builtin", "range">> THEN <<"range", e[3]>>
            ELSE <<"error", "TypeError">>

\* the objects an expression makes the script hold: what it names and what it
\* evaluates to
Held(e, locals) ==
  LET v == Eval(e, locals)
      named == IF e[1] \in {"attr", "item", "call"}
               THEN {Lookup(e[2], locals)} ELSE {}
  IN {o \in named \cup {v} : o[1] \in {"function", "builtin", "dict"}}

Truthy(v) == v \notin {<<"int", "0">>, <<"str", "">>}
\* the iterations of range(n)
Iterations(v) == IF v = <<"range", "2">> THEN 2 ELSE 0

ExecKeep == UNCHANGED <<typing_worker, workers, jobs, gen, fb, hwp, fs>>
InitExec ==
  /\ InitWorker
  /\ gen = GenIdle /\ NoFallback /\ NoController /\ NoBackend
  /\ \E n \in 1..MaxStmts : \E cleaned \in [1..n -> Stmts] :
       pipe = [ pc      |-> "L684",
                script  |-> cleaned,
                todo    |-> <<>>,
                locals  |-> [v \in ExecLocals |-> Unbound],
                calls   |-> <<>>,
                ran     |-> {},
                held    |-> {},
                exc     |-> "none" ]

\* where an exception of the try block of lines 683-686 leaves run()
ExecExcept(exc) ==
  IF exc = "SyntaxError" THEN "L689"
  ELSE IF exc = "ScriptCancelled" THEN "L692"
  ELSE "L695"
ExecRaise(exc) ==
  pipe' = [pipe EXCEPT !.pc = ExecExcept(exc), !.exc = exc]
\* one statement ran to its end
ExecRan(kind, rest, e) ==
  [pipe EXCEPT !.todo = rest, !.ran = @ \cup {kind},
               !.held = @ \cup Held(e, pipe.locals)]

\* lines 684-686: the cancel check, then exec compiles the text
ExecCompile ==
  /\ pipe.pc = "L684"
  /\ \E cancelled \in BOOLEAN :
       IF cancelled THEN ExecRaise("ScriptCancelled")
       ELSE IF \E k \in 1..Len(pipe.script) : pipe.script[k][1] = "invalid"
       THEN ExecRaise("SyntaxError")
       ELSE pipe' = [pipe EXCEPT !.pc = "L686", !.todo = pipe.script]
  /\ ExecKeep

ExecNext(kind) ==
  pipe.pc = "L686" /\ pipe.todo # <<>> /\ Head(pipe.todo)[1] = kind

\* an expression statement that calls a name of env: the argument is
\* evaluated, then the wrapper asks cancel_check and calls the controller
ExecExpr ==
  /\ ExecNext("expr")
  /\ LET s == Head(pipe.todo)
         v == IF s[3] = <<>> THEN <<"none", "">> ELSE Eval(s[3], pipe.locals)
     IN IF ExecError(v) THEN ExecRaise(v[2])
        ELSE \E cancelled \in BOOLEAN :
               IF cancelled THEN ExecRaise("ScriptCancelled")
               ELSE pipe' = [ExecRan("expr", Tail(pipe.todo),
                                     IF s[3] = <<>> THEN <<"name", s[2], "">>
                                     ELSE s[3])
                               EXCEPT !.calls = Append(@, <<s[2], v>>),
                                      !.held = @ \cup {<<"function", s[2]>>}]
  /\ ExecKeep

\* for i in range(n): body
ExecFor ==
  /\ ExecNext("for")
  /\ LET s == Head(pipe.todo)
         v == Eval(s[3], pipe.locals)
     IN IF ExecError(v) THEN ExecRaise(v[2])
        ELSE pipe' = [ExecRan("for",
                              [k \in 1..Iterations(v) |-> s[4]]
                                \o Tail(pipe.todo), s[3])
                        EXCEPT !.locals[s[2]] = <<"int", "1">>]
  /\ ExecKeep

\* if test: body
ExecIf ==
  /\ ExecNext("if")
  /\ LET s == Head(pipe.todo)
         v == Eval(s[3], pipe.locals)
     IN IF ExecError(v) THEN ExecRaise(v[2])
        ELSE pipe' = ExecRan("if",
                             (IF Truthy(v) THEN <<s[4]>> ELSE <<>>)
                               \o Tail(pipe.todo), s[3])
  /\ ExecKeep

\* name = expression
ExecAssign ==
  /\ ExecNext("assign")
  /\ LET s == Head(pipe.todo)
         v == Eval(s[3], pipe.locals)
     IN IF ExecError(v) THEN ExecRaise(v[2])
        ELSE pipe' = [ExecRan("assign", Tail(pipe.todo), s[3])
                        EXCEPT !.locals[s[2]] = v]
  /\ ExecKeep

\* import name: the builtins of env have no __import__
ExecImport ==
  /\ ExecNext("import")
  /\ ExecRaise("ImportError")
  /\ ExecKeep

\* the end of the text: line 697
ExecEnd ==
  /\ pipe.pc = "L686" /\ pipe.todo = <<>>
  /\ pipe' = [pipe EXCEPT !.pc = "L697"]
  /\ ExecKeep

NextExec ==
  \/ ExecCompile
  \/ ExecExpr
  \/ ExecFor
  \/ ExecIf
  \/ ExecAssign
  \/ ExecImport
  \/ ExecEnd
SpecExec == InitExec /\ [][NextExec]_vars

\* ------------------------------------- firebase_profile.increment_ai_usage
\* Some calls of increment_ai_usage for one uid run at the same time (AIWorker
\* threads, other installations of the same account). fs.doc is the stored
\* aiCallUsage of users/{uid} (Missing: no document), fs.local the usage of
\* the local tracking file, fs.calls the position of every call.
MaxCalls == 3
MaxUsage == 1
CallIds == 1..MaxCalls
\* the stored value when users/{uid} does not exist (GET answers 404)
Missing == -1

FsKeep == UNCHANGED <<typing_worker, workers, jobs, gen, pipe, fb, hwp>>
InitUsage ==
  /\ InitWorker
  /\ gen = GenIdle /\ pipe = PipeIdle /\ NoFallback /\ NoController
  /\ \E stored \in {Missing} \cup 0..MaxUsage :
       fs = [ pc      |-> "calls",
              started |-> stored,
              doc     |-> stored,
              local   |-> 0,
              calls   |-> [c \in CallIds |->
                            [pc |-> "L294", current_usage |-> 0,
                             result |-> <<"none", FALSE>>]] ]

CallAt(c, pc) == fs.pc = "calls" /\ fs.calls[c].pc = pc
\* the call returned
UsageReturn(c, path, value) ==
  [fs EXCEPT !.calls[c].pc = "return", !.calls[c].result = <<path, value>>]
\* _increment_local_usage
increment_local_usage(c) ==
  [UsageReturn(c, "local", TRUE) EXCEPT !.local = @ + 1]

\* lines 294-306: without requests or without an id token the call counts in
\* the local file
UsageToken(c) ==
  /\ CallAt(c, "L294")
  /\ \E id_token \in BOOLEAN :
       fs' = IF id_token THEN [fs EXCEPT !.calls[c].pc = "L319"]
             ELSE increment_local_usage(c)
  /\ FsKeep

\* lines 309-329, 350, 361-366: the GET of the document: 200 with the stored
\* value, 404 without a document, another status or an exception
UsageGet(c) ==
  /\ CallAt(c, "L319")
  /\ \E answered \in BOOLEAN :
       fs' = IF ~answered THEN increment_local_usage(c)
             ELSE IF fs.doc = Missing THEN [fs EXCEPT !.calls[c].pc = "L358"]
             ELSE [fs EXCEPT !.calls[c].pc = "L339",
                             !.calls[c].current_usage = fs.doc]
  /\ FsKeep

\* lines 331-348, 364-366: the PATCH of current_usage + 1; without a 200 the
\* call counts in the local file
UsagePatch(c) ==
  /\ CallAt(c, "L339")
  /\ \E answered \in BOOLEAN :
       fs' = IF ~answered THEN increment_local_usage(c)
             ELSE [UsageReturn(c, "remote", TRUE)
                     EXCEPT !.doc = fs.calls[c].current_usage + 1]
  /\ FsKeep

\* lines 351-359, 364-366: the POST that creates the document with
\* aiCallUsage 1; it is refused when the document exists by now
UsageCreate(c) ==
  /\ CallAt(c, "L358")
  /\ \E answer \in {"status", "error status", "exception"} :
       fs' = IF answer = "exception" THEN increment_local_usage(c)
             ELSE IF answer = "status" /\ fs.doc = Missing
             THEN [UsageReturn(c, "remote", TRUE) EXCEPT !.doc = 1]
             ELSE UsageReturn(c, "remote", FALSE)
  /\ FsKeep

NextUsage ==
  \E c \in CallIds :
    \/ UsageToken(c)
    \/ UsageGet(c)
    \/ UsagePatch(c)
    \/ UsageCreate(c)
SpecUsage == InitUsage /\ [][NextUsage]_vars


\* ---------------------- firebase_profile.refresh_user_profile_from_firebase
\* The interpreter's limit on nested calls (sys.getrecursionlimit()), counted
\* in frames of refresh_user_profile_from_firebase.
RecursionLimit == 3

Tiers == {"Free", "Pro"}
\* what requests.get gives: a status code, or an exception
FetchAnswers == {"200", "401", "500", "exception"}

\* the call is made with a stored user or none, a stored id token or none,
\* the stored tier and the tier of the Firestore document
InitRefresh ==
  /\ InitWorker
  /\ gen = GenIdle /\ pipe = PipeIdle /\ NoFallback /\ NoController
  /\ \E user \in BOOLEAN, token \in BOOLEAN, tier \in Tiers, remote \in Tiers :
       fs = [ pc        |-> "L147",
              user      |-> user,     \* get_stored_user() has a uid
              id_token  |-> token,    \* the stored user has an idToken
              tier      |-> tier,     \* the tier of the stored user
              remote    |-> remote,   \* the tier of users/{uid}
              depth     |-> 1,        \* frames of the function on the stack
              fetches   |-> 0,        \* requests.get calls made
              refreshes |-> 0,        \* refresh_id_token calls made
              answers   |-> <<>>,     \* what requests.get gave, in order
              result    |-> "pending" ]

\* every frame returns what the innermost one returns (line 204)
RefreshReturned(s, result) == [s EXCEPT !.pc = "returned", !.result = result]

\* lines 147-161: the stored user and the id token
RefreshEnter ==
  /\ fs.pc = "L147"
  /\ \E refreshed \in BOOLEAN :
       fs' = IF ~fs.user THEN RefreshReturned(fs, "None")
             ELSE IF fs.id_token THEN [fs EXCEPT !.pc = "L163"]
             ELSE IF refreshed
               THEN [fs EXCEPT !.pc = "L163", !.id_token = TRUE,
                               !.refreshes = @ + 1]
             ELSE RefreshReturned([fs EXCEPT !.refreshes = @ + 1], "None")
  /\ FsKeep

\* lines 163-198 and 207-213: the fetch and every answer but 401
RefreshFetch ==
  /\ fs.pc = "L163"
  /\ \E answer \in FetchAnswers :
       LET s == [fs EXCEPT !.fetches = @ + 1, !.answers = Append(@, answer)]
       IN fs' = IF answer = "200"
                THEN RefreshReturned([s EXCEPT !.tier = s.remote], "profile")
                ELSE IF answer = "401" THEN [s EXCEPT !.pc = "L200"]
                ELSE RefreshReturned(s, "None")
  /\ FsKeep

\* lines 200-205: the token is refreshed and the function calls itself; at
\* the recursion limit the call raises RecursionError, which the handler of
\* lines 211-213 turns into None
RefreshRetry ==
  /\ fs.pc = "L200"
  /\ \E refreshed \in BOOLEAN :
       LET s == [fs EXCEPT !.refreshes = @ + 1] IN
       fs' = IF ~refreshed THEN RefreshReturned(s, "None")
             ELSE IF fs.depth < RecursionLimit
               THEN [s EXCEPT !.pc = "L147", !.depth = @ + 1]
             ELSE RefreshReturned(s, "None")
  /\ FsKeep

NextRefresh == RefreshEnter \/ RefreshFetch \/ RefreshRetry
SpecRefresh == InitRefresh /\ [][NextRefresh]_vars


\* ------------------------------- one call, run by exec and by the tokenizer
\* The argument texts of the well-formed calls of an instruction: none, a
\* string with either quote (plain, empty, holding the other quote, holding
\* an escaped backslash), a boolean, a number. insert_table is left out.
AgreeArgs(name) ==
  IF name \in FbNoArgs THEN { <<>> }
  ELSE IF name \in FbOneStr
    THEN { <<"'", "a", "'">>, <<"\"", "a", "\"">>, <<"'", "'">>,
           <<"\"", "'", "\"">>, <<"'", "\\", "\\", "'">> }
  ELSE IF name \in {"set_bold(", "set_underline("}
    THEN { <<>>, <<"True">>, <<"False">> }
  ELSE { <<"9">>, <<"9", "9">> }
AgreeNames == FbNames \ {"insert_table("}

RECURSIVE Unescape(_)
\* the characters of a string literal: a backslash stands for the character
\* behind it
Unescape(s) ==
  IF s = <<>> THEN <<>>
  ELSE IF s[1] = "\\" /\ Len(s) >= 2 THEN <<s[2]>> \o Unescape(SubSeq(s, 3, Len(s)))
  ELSE <<s[1]>> \o Unescape(Tail(s))

\* the value exec gives the literal args
Literal(args) ==
  IF args[1] \in Quotes THEN Unescape(SubSeq(args, 2, Len(args) - 1))
  ELSE IF args = <<"True">> THEN TRUE
  ELSE IF args = <<"False">> THEN FALSE
  ELSE args

\* The controller operation the wrappers of lines 621-679 reach for the call
\* name(args), as <<name, argument>>: _wrap_bold has enabled = True as its
\* default, _wrap_underline has None, written <<>>.
PrimaryCallOf(name, args) ==
  IF name \in FbNoArgs THEN <<name, <<>>>>
  ELSE IF name = "set_bold("
    THEN <<name, IF args = <<>> THEN TRUE ELSE Literal(args)>>
  ELSE IF name = "set_underline("
    THEN <<name, IF args = <<>> THEN <<>> ELSE Literal(args)>>
  ELSE <<name, Literal(args)>>

\* one call is given to exec (pipe) and to _execute_fallback (fb)
InitAgree ==
  /\ InitWorker
  /\ gen = GenIdle /\ NoController /\ NoBackend
  /\ \E name \in AgreeNames : \E args \in AgreeArgs(name) :
       /\ pipe = [ pc |-> "L686", name |-> name, args |-> args,
                   calls |-> <<>> ]
       /\ fb = FbStart(<<name>> \o args \o <<")">>)

\* line 686: exec runs the call
PrimaryCall ==
  /\ pipe.pc = "L686"
  /\ pipe' = [pipe EXCEPT !.pc = "L697",
                          !.calls = <<PrimaryCallOf(pipe.name, pipe.args)>>]
  /\ UNCHANGED <<typing_worker, workers, jobs, gen, fb, hwp, fs>>

NextAgree == FbStep \/ PrimaryCall
SpecAgree == InitAgree /\ [][NextAgree]_vars


\* ------------------------------------------- auto-type: _try_auto_type
\* The window, the AIWorker thread and the TypingWorker thread of one run
\* started by _start_ai_run(auto_type=True). Signals of the two threads are
\* queued to the GUI thread, which handles them one by one in the order they
\* were posted. The whole state is held in gen; indexes are written 1..total
\* (0..total-1 in the code) and None is written 0. The statuses stand for the
\* texts of the code: "wait", "generating", "done", "error_empty", "error",
\* "skipped", "typing_wait", "typing", "typed".
Signal(sig, idx, status, text) ==
  [sig |-> sig, idx |-> idx, status |-> status, text |-> text]

\* _start_ai_run lines 693-712, and AIWorker.run lines 303-306: every image
\* has been submitted and its progress(idx, "generating") signal posted.
InitAuto ==
  /\ InitWorker
  /\ pipe = PipeIdle /\ NoFallback /\ NoController /\ NoBackend
  /\ \E total \in 1..MaxImages :
       gen = [ pc          |-> "as_completed",
               total       |-> total,
               todo        |-> 1..total,           \* futures not collected
               cur         |-> 0,                  \* idx of the loop body
               results     |-> [i \in 1..total |-> EmptyText],
               events      |-> [i \in 1..total |->
                                  Signal("progress", i, "generating", EmptyText)],
               auto_type_after_ai       |-> TRUE,
               generated_codes_by_index |-> [i \in 1..total |-> EmptyText],
               gen_statuses             |-> [i \in 1..total |-> "wait"],
               next_auto_type_index     |-> 1,
               auto_type_pending_idx    |-> 0,
               skipped_indexes          |-> {},
               q           |-> <<>>,               \* TypingWorker._q
               typing      |-> 0,                  \* the job run() holds
               enqueued    |-> <<>> ]              \* the calls of enqueue

Post(g, s) == [g EXCEPT !.events = Append(@, s)]

\* _try_auto_type, lines 782-825.
RECURSIVE try_auto_type_loop(_)
try_auto_type_loop(g) ==
  IF ~(g.next_auto_type_index <= g.total) THEN g
  ELSE LET idx == g.next_auto_type_index
       IN IF g.gen_statuses[idx] \in {"wait", "generating"} THEN g
          ELSE IF g.generated_codes_by_index[idx] = EmptyText
          THEN try_auto_type_loop(
                 [g EXCEPT !.skipped_indexes = @ \cup {idx},
                           !.gen_statuses[idx] = "skipped",
                           !.next_auto_type_index = @ + 1])
          ELSE [g EXCEPT !.auto_type_pending_idx = idx,
                         !.gen_statuses[idx] = "typing_wait",
                         !.q = Append(@, idx),
                         !.enqueued = Append(@, idx)]
try_auto_type(g) ==
  IF ~g.auto_type_after_ai \/ g.total <= 0 \/ g.auto_type_pending_idx # 0
  THEN g
  ELSE try_auto_type_loop(g)

AutoStep(g) ==
  /\ gen' = g
  /\ UNCHANGED <<typing_worker, workers, jobs, pipe, fb, hwp, fs>>

\* AIWorker.run lines 309-317 and 320-322: the next completed future is
\* taken, its result stored and progress emitted.
AiProgress ==
  /\ gen.pc = "as_completed" /\ gen.todo # {}
  /\ \E idx \in gen.todo : \E out \in JobOutcome :
       AutoStep(Post([gen EXCEPT !.pc = "item_finished", !.cur = idx,
                                 !.todo = @ \ {idx},
                                 !.results[idx] = ResultText(idx, out)],
                     Signal("progress", idx,
                            CASE out = "text" -> "done"
                              [] out = "empty" -> "error_empty"
                              [] OTHER -> "error",
                            EmptyText)))

\* lines 319 and 323: self.item_finished.emit(idx, text)
AiItemFinished ==
  /\ gen.pc = "item_finished"
  /\ AutoStep(Post([gen EXCEPT !.pc = "as_completed"],
                   Signal("ai_item_finished", gen.cur, "",
                          gen.results[gen.cur])))

\* line 324: self.finished.emit(results)
AiFinished ==
  /\ gen.pc = "as_completed" /\ gen.todo = {}
  /\ AutoStep(Post([gen EXCEPT !.pc = "returned"],
                   Signal("ai_finished", 0, "", EmptyText)))

\* TypingWorker.run lines 1220-1233: a job is taken, item_started emitted.
TypingItemStarted ==
  /\ gen.typing = 0 /\ gen.q # <<>>
  /\ AutoStep(Post([gen EXCEPT !.typing = Head(gen.q), !.q = Tail(@)],
                   Signal("item_started", Head(gen.q), "", EmptyText)))

\* lines 1236-1268: runner.run returns, item_finished emitted.
TypingItemFinished ==
  /\ gen.typing # 0
  /\ AutoStep(Post([gen EXCEPT !.typing = 0],
                   Signal("item_finished", gen.typing, "", EmptyText)))

\* The GUI thread takes the next queued signal.
Handles(sig) == gen.events # <<>> /\ Head(gen.events).sig = sig
Taken == [gen EXCEPT !.events = Tail(@)]

\* _on_ai_progress, lines 738-744
OnAiProgress ==
  /\ Handles("progress")
  /\ LET s == Head(gen.events)
     IN AutoStep([Taken EXCEPT !.gen_statuses[s.idx] = s.status])

\* _on_ai_item_finished, lines 764-780
OnAiItemFinished ==
  /\ Handles("ai_item_finished")
  /\ LET s == Head(gen.events)
     IN AutoStep(try_auto_type(
                   [Taken EXCEPT !.generated_codes_by_index[s.idx] = s.text]))

AutoTypeDone(g) ==
  IF ~(g.next_auto_type_index <= g.total) /\ g.auto_type_pending_idx = 0
  THEN [g EXCEPT !.auto_type_after_ai = FALSE]
  ELSE g

\* _on_ai_finished, lines 827-866
OnAiFinished ==
  /\ Handles("ai_finished")
  /\ LET g == [Taken EXCEPT !.generated_codes_by_index = gen.results]
     IN AutoStep(IF g.auto_type_after_ai THEN AutoTypeDone(try_auto_type(g))
                 ELSE g)

\* _on_typing_item_started, lines 887-891
OnTypingItemStarted ==
  /\ Handles("item_started")
  /\ LET s == Head(gen.events)
     IN AutoStep([Taken EXCEPT !.gen_statuses[s.idx] = "typing"])

\* _on_typing_item_finished, lines 893-905
OnTypingItemFinished ==
  /\ Handles("item_finished")
  /\ LET s == Head(gen.events)
         g == [Taken EXCEPT !.gen_statuses[s.idx] = "typed"]
         h == try_auto_type([g EXCEPT !.auto_type_pending_idx = 0,
                                      !.next_auto_type_index = s.idx + 1])
     IN AutoStep(IF g.auto_type_pending_idx = s.idx
                 THEN IF ~(h.next_auto_type_index <= h.total)
                      THEN [h EXCEPT !.auto_type_after_ai = FALSE]
                      ELSE h
                 ELSE g)

NextAuto ==
  \/ AiProgress \/ AiItemFinished \/ AiFinished
  \/ TypingItemStarted \/ TypingItemFinished
  \/ OnAiProgress \/ OnAiItemFinished \/ OnAiFinished
  \/ OnTypingItemStarted \/ OnTypingItemFinished

SpecAuto == InitAuto /\ [][NextAuto]_vars

\* Each thread runs on: the AIWorker and TypingWorker threads and the event
\* loop of the GUI thread are scheduled by the operating system.
FairSpecAuto == SpecAuto /\ WF_vars(NextAuto)

\* ------------------------------------------------------------------ claims
InRun(w) == workers[w].pc \in {"L684", "exec", "fb_top", "fb_try", "fb_call"}
QueueOf(w) == { workers[w].q[i] : i \in 1..Len(workers[w].q) }
JobIds == 1..Len(jobs)

\* C1: in every reachable state at most one ScriptRunner.run is in progress,
\* counted over all TypingWorker objects the window has created.
C1_OneRunAtATime == Cardinality({ w \in WorkerIds : InRun(w) }) <= 1

\* A second worker runs a script after the first one was cancelled and ended.
C1_Witness ==
  \E v, w \in WorkerIds :
    /\ workers[v].pc = "done" /\ workers[v].cancel
    /\ workers[w].pc = "exec" /\ workers[w].ndisp = 1

\* C2: a transport-unavailable failure of the first attempt leads to a new
\* connected controller and one replay of the same job from instruction 1; a
\* replay that returns is reported by item_finished and the loop goes on; a
\* replay that fails ends run() with the error signal; there are never more
\* than two attempts and no attempt calls the controller more often than it
\* has passed instructions.
C2_Step(w) ==
  LET r == workers[w]
      n == workers'[w]
  IN /\ (r.attempt = 1 /\ r.fail1 = "none" /\ n.fail1 = "rpc")
          => n.pc = "L1244" /\ n.exit = "none"
     /\ (r.pc = "L1244" /\ n.pc = "L684")
          => n.attempt = 2 /\ n.job = r.job /\ n.controller
     /\ (r.pc = "L684" /\ n.pc \in {"exec", "fb_top"})
          => n.pos = 1 /\ n.ndisp = 0
     /\ (r.pc = "ret" /\ n.pc # "ret")
          => jobs'[r.job].finished /\ n.pc = "L1216"
     /\ (r.attempt = 2 /\ r.fail2 = "none" /\ n.fail2 # "none")
          => n.exit = "error" /\ n.pc = "finally"
C2_State(w) ==
  LET r == workers[w]
  IN /\ r.attempt <= 2
     /\ r.attempt = 2 => r.fail1 = "rpc"
     /\ r.fail1 = "rpc" => r.pc = "L1244" \/ r.attempt = 2
     /\ InRun(w) /\ r.pc # "L684" => r.ndisp <= r.pos - 1
     /\ r.pc = "exec" => r.ndisp = r.pos - 1
C2_ReplayOnce ==
  /\ [](\A w \in WorkerIds : C2_State(w))
  /\ [][\A w \in WorkerIds : C2_Step(w)]_vars

\* A replay that succeeded: the item is finished and the worker is back at
\* the top of its loop.
C2_Witness ==
  \E w \in WorkerIds :
    /\ workers[w].attempt = 2 /\ workers[w].pc = "L1216"
    /\ jobs[workers[w].job].finished

\* C3: whenever runner.run is left by ScriptCancelled, in the first attempt
\* or in the replay, run() ends with the cancelled signal and not with error.
C3_CancelIsNotFailure ==
  \A w \in WorkerIds :
    (workers[w].fail1 = "cancelled" \/ workers[w].fail2 = "cancelled")
      => workers[w].exit = "cancelled"

\* C4: every call of a controller method is made at an instruction boundary
\* at which the flag was polled and found clear, in the primary interpreter
\* and in the fallback tokenizer, for every instruction name.
C4_PolledAtEveryBoundary ==
  [][\A w \in WorkerIds :
       workers'[w].ndisp > workers[w].ndisp => workers[w].polled]_vars

\* C5: when cancel() is called the queue is empty afterwards; no job that
\* was queued at that moment is ever started; once the worker has seen the
\* flag it calls the controller no more; and the worker's thread ends.
C5_Step(w) ==
  LET r == workers[w]
      n == workers'[w]
  IN /\ (~r.cancel /\ n.cancel) => n.q = <<>>
     /\ r.observed => n.ndisp <= r.ndisp /\ n.pc \notin {"L1233", "L684"}
C5_CancellationBoundary ==
  /\ [](\A j \in JobIds : jobs[j].drained => ~jobs[j].started)
  /\ [][\A w \in WorkerIds : C5_Step(w)]_vars
  /\ \A w \in WorkerIds :
       (workers[w].cancel /\ workers[w].running) ~> (workers[w].pc = "done")

\* cancel() came while a script was running with two more queued behind it:
\* the worker has ended, the running script is unfinished, two were drained.
C5_Witness ==
  \E w \in WorkerIds :
    /\ workers[w].pc = "done" /\ workers[w].exit = "cancelled"
    /\ \E j \in JobIds :
         jobs[j].w = w /\ jobs[j].started /\ ~jobs[j].finished
    /\ Cardinality({ j \in JobIds : jobs[j].w = w /\ jobs[j].drained }) >= 2

\* C6: when run() ends because connecting failed or because the script
\* failed with an error that is not transport-unavailable, the error signal
\* was emitted with the message of the failure.
C6_FatalFailureSurfaced ==
  \A w \in WorkerIds :
    (workers[w].pc = "finally"
       /\ (workers[w].fail1 \in {"err", "connect_err"}
             \/ workers[w].fail2 \in {"err", "connect_err"}))
      => workers[w].exit = "error" /\ workers[w].msg \in {"err", "connect_err"}

\* C7 as claimed: a script queued behind a script that failed with a
\* non-transport error is still started.
C7_QueuedScriptsStillRun ==
  \A w \in WorkerIds : \A j \in 1..MaxJobs :
    (workers[w].exit = "error" /\ workers[w].msg = "err" /\ j \in QueueOf(w))
      ~> (j \in JobIds /\ jobs[j].started)

\* C7 amended: after a worker has emitted error for a non-transport failure
\* of the first attempt its run() ends, and no script of its queue is started
\* from then on.
C7_FailureStopsTheQueue ==
  /\ [](\A w \in WorkerIds :
          workers[w].exit = "error" => workers[w].pc \in {"finally", "done"})
  /\ [][\A w \in WorkerIds : \A j \in JobIds :
          (workers[w].exit = "error" /\ jobs[j].w = w /\ ~jobs[j].started)
            => ~jobs'[j].started]_vars

\* A worker has ended on a non-transport failure with a script still queued.
C7_Witness ==
  \E w \in WorkerIds :
    /\ workers[w].pc = "done" /\ workers[w].exit = "error"
    /\ workers[w].msg = "err" /\ workers[w].q # <<>>

\* C8: the list the finished signal carries has one entry per image, entry i
\* is the script _job produced for image i, or the empty string where it
\* failed or returned nothing, whatever the order of completion.
C8_ResultsByIndex ==
  gen.pc = "finished" =>
    /\ Len(gen.emitted) = gen.total
    /\ \A i \in GenIdx : gen.emitted[i] = ResultText(i, gen.out[i])

\* Finished after the futures completed out of index order, with one worker
\* failed and another one successful.
C8_Witness ==
  /\ gen.pc = "finished"
  /\ gen.total >= 2
  /\ gen.order[1] # 1
  /\ \E i, k \in GenIdx : gen.out[i] = "exc" /\ gen.out[k] = "text"

\* The names of the instruction calls, as they stand in a script line.
CallNames ==
  TargetCalls \cup
  {"insert_paragraph()", "insert_small_paragraph()", "insert_template(",
   "focus_placeholder(", "exit_box()", "set_bold(",
   "set_align_right_next_line()", "set_align_justify_next_line()"}
NumCalls(line) == Cardinality({ i \in 1..Len(line) : line[i] \in CallNames })

\* The argument of the text/equation call that line holds is a string
\* literal that is closed on the line.
ClosedArgument(line) ==
  LET i == CHOOSE i \in 1..Len(line) : line[i] \in TargetCalls
      arg == SubSeq(line, i + 1, Len(line))
  IN /\ arg # <<>> /\ arg[1] \in Quotes
     /\ count_unescaped(Tail(arg), arg[1]) >= 1

\* C9: the normalization pipeline is idempotent: run on the line list it
\* produced, it produces the same line list again.
C9_PipelineIdempotent ==
  (pipe.pc = "L621" /\ pipe.round = 2) => pipe.lines = pipe.first

\* C10: quote-balance invariant: for a script whose lines hold at most one
\* call each, after the string, inline and repair passes every line still
\* holds at most one call, and the argument of every insert_text,
\* insert_equation and insert_latex_equation call is a closed literal on that
\* line.
C10_QuoteBalance ==
  (/\ pipe.pc = "L613"
   /\ \A l \in Range(SplitLines(pipe.script)) : NumCalls(l) <= 1)
  => \A l \in Range(pipe.lines) :
       /\ NumCalls(l) <= 1
       /\ ContainsAny(l, TargetCalls) => ClosedArgument(l)

\* 1, 2, 3 for the markers @@@, ###, &&&; 0 for a line that is no marker
MarkerRank(line) ==
  IF FpClose(Strip(line)) = 0 THEN 0
  ELSE IF FpMarker(Strip(line)) = <<"@@@">> THEN 1
  ELSE IF FpMarker(Strip(line)) = <<"###">> THEN 2
  ELSE IF FpMarker(Strip(line)) = <<"&&&">> THEN 3
  ELSE 0
NumRank(lines, r) ==
  Cardinality({ i \in 1..Len(lines) : MarkerRank(lines[i]) = r })

\* C11: placeholder monotonicity: when the input holds a choices-capable
\* template, the markers of the Placeholder Normalizer's output stand in the
\* order @@@, ###, &&&, and no marker is synthesized more than once.
C11_PlaceholderOrder ==
  (/\ pipe.pc = "L616"
   /\ \E l \in Range(PassInput) : IsTemplate(Strip(l)))
  => /\ \A i, j \in 1..Len(pipe.lines) :
          (i < j /\ MarkerRank(pipe.lines[i]) > 0
                 /\ MarkerRank(pipe.lines[j]) > 0)
          => MarkerRank(pipe.lines[i]) <= MarkerRank(pipe.lines[j])
     /\ \A r \in 1..3 : NumRank(pipe.lines, r) <= NumRank(PassInput, r) + 1

\* the script of the worked example: template, outside line, explicit ###,
\* box item, choice
BoxScenario ==
  << <<"insert_template(", "'", "box.hwp", "'", ")">>,
     TextLine(<<"a">>), FocusLine("###"),
     TextLine(<<"g.", "a">>), TextLine(<<"(1)", "a">>) >>

\* C14: for the script template / outside line / explicit ### / box item /
\* choice, the output has @@@ immediately before the outside line, exactly
\* one ### and it stands before the box item, and exit_box() followed by
\* &&& before the choice.
C14_BoxScenario ==
  (pipe.pc = "L616" /\ PassInput = BoxScenario)
  => LET out == pipe.lines
         At(l) == { i \in 1..Len(out) : out[i] = l }
     IN /\ \E i \in At(FocusLine("@@@")) : (i + 1) \in At(TextLine(<<"a">>))
        /\ Cardinality(At(FocusLine("###"))) = 1
        /\ \E i \in At(FocusLine("###")) :
             \E j \in At(TextLine(<<"g.", "a">>)) : i < j
        /\ \E i \in At(ExitBox) : \E j \in At(FocusLine("&&&")) :
             \E k \in At(TextLine(<<"(1)", "a">>)) : i < j /\ j < k

\* The normalizer has processed the script of the worked example.
C14_Witness ==
  /\ pipe.pc = "L616" /\ PassInput = BoxScenario
  /\ Len(pipe.lines) > Len(BoxScenario)

IsBreak(line) == Strip(line) = Paragraph \/ Strip(line) = SmallParagraph
\* a line that is neither blank, nor a paragraph break, nor a score
IsPlainContent(line) == Strip(line) # <<>> /\ ~IsBreak(line) /\ ~IsScore(line)
ScoreIndexes(lines) == { i \in 1..Len(lines) : IsScore(lines[i]) }

\* the only score of the input is a text score at i, directly behind content
\* and directly before content or the end of the list
MidParagraphScore(lines, i) ==
  /\ ScoreIndexes(lines) = {i}
  /\ lines[i] = TextLine(<<"[3]">>)
  /\ i > 1 /\ IsPlainContent(lines[i - 1])
  /\ i < Len(lines) => IsPlainContent(lines[i + 1])

C13_FallbackTerminates ==
  /\ [](fb.exc \in {"none", "ScriptCancelled"})
  /\ [][/\ fb'.i >= fb.i
        /\ (/\ fb.pc = "L479" /\ fb'.pc \in {"L479", "L496"}
            /\ fb'.cancel = fb.cancel) => fb'.i > fb.i]_vars
  /\ <>(fb.pc \in {"return", "raised"})

\* The parser returned after a sink call that raised and a text whose
\* parenthesis and quote are left open.
C13_Witness ==
  /\ fb.pc = "return"
  /\ \E k \in 1..Len(fb.calls) : fb.calls[k][3] = "HwpControllerError"
  /\ fb.quote # "none" /\ fb.depth > 0

\* ------------------------------------------------------------- the Composer
\* an operation of the Composer returned without an exception
Completed(name) ==
  hwp.pc = "returned" /\ hwp.op[1] = name /\ hwp.exc = "none"

\* C15: box state: every insert_box and every insert_view_box that returns
\* without an exception leaves in_box and box_line_start true, and every
\* exit_box and every insert_table that exits leaves in_box false.
C15_BoxState ==
  /\ (Completed("insert_box") \/ Completed("insert_view_box"))
       => hwp.in_condition_box /\ hwp.box_line_start
  /\ (hwp.pc = "returned"
      /\ (hwp.op[1] = "exit_box"
          \/ (hwp.op[1] = "insert_table" /\ hwp.op[3])))
       => ~hwp.in_condition_box

\* C16: one-shot alignment: a non-empty insert_text or insert_equation that
\* is called while a one-shot flag is set and returns without an exception
\* leaves the flag false and the line aligned.
C16_OneShotConsumed ==
  [][(/\ hwp.pc = "ready" /\ hwp'.pc = "returned"
      /\ hwp'.op[1] \in {"insert_text", "insert_equation"}
      /\ hwp'.op[2] # <<>>
      /\ hwp'.exc = "none")
     => /\ hwp.align_right_next_line
            => ~hwp'.align_right_next_line /\ hwp'.line_right_aligned
        /\ hwp.align_justify_next_line
            => ~hwp'.align_justify_next_line /\ hwp'.line_justify_aligned]_vars

\* C19: after exit_box returns without an exception, in_box and
\* box_line_start are false, no alignment flag is set and line_start is true.
C19_ExitBoxResets ==
  Completed("exit_box")
    => /\ ~hwp.in_condition_box /\ ~hwp.box_line_start
       /\ ~hwp.align_right_next_line /\ ~hwp.align_justify_next_line
       /\ ~hwp.line_right_aligned /\ ~hwp.line_justify_aligned
       /\ hwp.line_start

\* a paragraph break was made before the first text was typed
BreakBeforeText(out) ==
  \E i, j \in 1..Len(out) :
    /\ i < j
    /\ out[i][1] = "BreakPara" /\ out[i][3]
    /\ out[j][1] \in {"InsertText", "KeyIndicator"}

\* C20 as stated: text-insertion rule (1): an insert_text that is called at
\* a line start with a text that begins with a tab, and returns without an
\* exception, makes a paragraph break before it types the text.
C20_TabBreaksParagraph ==
  [][(/\ hwp.pc = "ready" /\ hwp.line_start
      /\ hwp'.pc = "returned" /\ hwp'.op[1] = "insert_text"
      /\ StartsWith(hwp'.op[2], "\t")
      /\ hwp'.exc = "none")
     => BreakBeforeText(hwp'.out)]_vars

\* C20, amended: an insert_text that is called at a line start, after a first
\* line was written, with a text that begins with a tab, and returns without
\* an exception, makes a paragraph break before it types the text.
C20_TabBreaksParagraphAfterFirstLine ==
  [][(/\ hwp.pc = "ready" /\ hwp.line_start /\ hwp.first_line_written
      /\ hwp'.pc = "returned" /\ hwp'.op[1] = "insert_text"
      /\ StartsWith(hwp'.op[2], "\t")
      /\ hwp'.exc = "none")
     => BreakBeforeText(hwp'.out)]_vars

\* insert_text returned from a text that begins with a tab, with the
\* paragraph break before the text
C20_Witness ==
  /\ Completed("insert_text") /\ StartsWith(hwp.op[2], "\t")
  /\ BreakBeforeText(hwp.out)

\* ------------------------------------------------------------------- exec
\* C17: the primary interpreter runs nothing but calls of the instruction
\* names: no loop, conditional or assignment of a script is executed, and a
\* script holds no object other than the instructions of env and the
\* whitelisted builtins.
C17_RestrictedLanguage ==
  pipe.pc \in {"L686", "L689", "L692", "L695", "L697"}
    => /\ pipe.ran \subseteq {"expr"}
       /\ pipe.held \subseteq {<<"function", n>> : n \in env}
                              \cup {<<"builtin", n>> : n \in SAFE_BUILTINS}

\* ------------------------------------------------------ increment_ai_usage
\* the calls that took the remote path and returned True
RemoteTrue == {c \in CallIds : fs.calls[c].result = <<"remote", TRUE>>}
\* the counter a document holds: no document counts as 0
StoredUsage(doc) == IF doc = Missing THEN 0 ELSE doc
AllReturned == \A c \in CallIds : fs.calls[c].pc = "return"

\* C18: no lost update: when all concurrent calls have returned, the stored
\* aiCallUsage is higher than at the start by the number of calls that took
\* the remote path and returned True.
C18_NoLostUpdate ==
  (fs.pc = "calls" /\ AllReturned)
    => StoredUsage(fs.doc) = StoredUsage(fs.started) + Cardinality(RemoteTrue)

\* ------------------------------------------- the Composer: insertion rules
\* the operation typed the spaces of the automatic line indent of equations
AutoIndent(out) ==
  \E i \in 1..Len(out) :
    out[i][1] \in {"InsertText", "KeyIndicator"} /\ out[i][2] = <<" ", " ">>

\* C21: text/equation-insertion rule (2): an insert_text or insert_equation
\* that applies a pending one-shot alignment flag, right or justify, and
\* returns without an exception types no auto-indent spaces.
C21_AlignmentSkipsIndent ==
  [][(/\ hwp.pc = "ready" /\ hwp'.pc = "returned"
      /\ hwp'.op[1] \in {"insert_text", "insert_equation"}
      /\ hwp'.exc = "none"
      /\ \/ /\ hwp.align_right_next_line /\ ~hwp'.align_right_next_line
            /\ hwp'.line_right_aligned
         \/ /\ hwp.align_justify_next_line /\ ~hwp'.align_justify_next_line
            /\ hwp'.line_justify_aligned)
     => ~AutoIndent(hwp'.out)]_vars

\* the text of the last successful typing call of an operation
Typed(out) ==
  LET typing == {i \in 1..Len(out) :
                   out[i][1] \in {"InsertText", "KeyIndicator"} /\ out[i][3]}
  IN IF typing = {} THEN <<>>
     ELSE out[CHOOSE i \in typing : \A j \in typing : j <= i][2]

\* C22: the box-line-start prefix (rule 3) is decided before the drop of one
\* leading space after an equation (rule 4): text that begins with a space,
\* inserted inside a box at box-line-start directly after an equation, is
\* typed without prefix and without its one leading space.
C22_PrefixBeforeDrop ==
  [][(/\ hwp.pc = "ready"
      /\ hwp.in_condition_box /\ hwp.box_line_start /\ hwp.last_was_equation
      /\ hwp'.pc = "returned" /\ hwp'.op[1] = "insert_text"
      /\ StartsWith(hwp'.op[2], " ")
      /\ hwp'.exc = "none")
     => Typed(hwp'.out) = Tail(hwp'.op[2])]_vars

\* C23: every insert_equation that returns without an exception ends with
\* last_was_equation true, line_start false and box_line_start false.
C23_EquationClearsBoxLineStart ==
  Completed("insert_equation")
    => hwp.last_was_equation /\ ~hwp.line_start /\ ~hwp.box_line_start

\* C24: last_was_equation is true only while nothing was emitted since the
\* last equation: after a paragraph break or a non-empty text insertion that
\* returned without an exception it is false.
C24_EquationFlagCleared ==
  (\/ Completed("insert_paragraph")
   \/ (Completed("insert_text") /\ hwp.op[2] # <<>>))
    => ~hwp.last_was_equation

\* the operation asked the sink for the alignment align
AlignRequested(out, align) ==
  \E i \in 1..Len(out) :
    out[i][1] \in {"ParagraphShapeAlign", "Run.ParagraphShapeAlign"}
    /\ out[i][2] = <<align>>

\* the operation issued one of the sink calls that leave a box or table
ExitRequested(out) ==
  \E i \in 1..Len(out) : out[i][1] \in {"TableLowerCell", "MoveDown", "CloseEx"}

C26_NoRetryNoSwallow ==
  hwp.pc = "returned"
    => \A i \in 1..Len(hwp.out) :
         ~hwp.out[i][3] => i = Len(hwp.out) /\ hwp.exc # "none"

\* ------------------------------------------------------ the Tab Sanitizer
\* the first non-blank line after line i of lines is an equation insertion
EquationFollows(lines, i) ==
  \E j \in (i + 1)..Len(lines) :
    /\ Strip(lines[j]) # <<>>
    /\ \A k \in (i + 1)..(j - 1) : Strip(lines[k]) = <<>>
    /\ \E call \in EquationCalls : StartsWith(LStrip(lines[j]), call)

\* C27: the Tab Sanitizer keeps a line that is an insert_text of one tab if
\* and only if the next non-blank line is an equation insertion
\* (insert_equation or insert_latex_equation) and otherwise makes it
\* insert_text(' '); every other line is unchanged and the number of lines is
\* preserved.
C27_TabKeptBeforeEquation ==
  pipe.pc = "L619"
    => /\ Len(pipe.lines) = Len(PassInput)
       /\ \A i \in 1..Len(PassInput) :
            pipe.lines[i] =
              IF PassInput[i] \notin TabLines THEN PassInput[i]
              ELSE IF EquationFollows(PassInput, i) THEN PassInput[i]
              ELSE TextLine(<<" ">>)

\* ------------------------------------------------ the Placeholder Normalizer
\* C28: once the box has been entered the normalizer never re-enters @@@: in
\* the output of the Placeholder Normalizer no focus_placeholder('@@@'),
\* explicit or synthesized, stands after the first focus_placeholder('###').
C28_NoOutsideAfterInside ==
  pipe.pc = "L616"
    => \A i, j \in 1..Len(pipe.lines) :
         (i < j /\ MarkerRank(pipe.lines[i]) = 2)
           => MarkerRank(pipe.lines[j]) # 1

\* C29: a repeated focus_placeholder('###') is dropped: the output of the
\* Placeholder Normalizer holds at most one focus_placeholder('###'), for
\* any input.
C29_OneInsideMarker ==
  pipe.pc = "L616" => NumRank(pipe.lines, 2) <= 1

\* ------------------------------------------------- the Score-Line Formatter
\* the paragraph breaks of lines between the indexes a and b
BreaksBetween(lines, a, b) == { k \in a..b : IsBreak(lines[k]) }

\* C30: the general rule of the Score-Line Formatter: for every input, every
\* score line of the output is the text instruction, stands directly behind
\* set_align_right_next_line(), which stands behind exactly one paragraph
\* break (behind nothing at the start of the script), and is followed by
\* one insert_paragraph() and then by exactly one more paragraph break before
\* the next content line, by none if no content follows.
C30_ScoreRule ==
  pipe.pc = "L617" =>
    LET out == pipe.lines
        Content(j) == { k \in (j + 2)..Len(out) :
                          Strip(out[k]) # <<>> /\ ~IsBreak(out[k]) }
    IN \A j \in 1..Len(out) :
         IsScore(out[j]) =>
           /\ out[j] = TextLine(<<"[3]">>)
           /\ j > 1 /\ out[j - 1] = AlignRight
           /\ j > 2 => out[j - 2] = Paragraph
           /\ j > 3 => ~IsBreak(out[j - 3])
           /\ j < Len(out) /\ out[j + 1] = Paragraph
           /\ IF Content(j) = {}
              THEN BreaksBetween(out, j + 2, Len(out)) = {}
              ELSE LET n == CHOOSE k \in Content(j) : \A m \in Content(j) : k <= m
                   IN Cardinality(BreaksBetween(out, j + 2, n - 1)) = 1

\* ------------------------------------------------------ the Composer: exit_box
\* C39: exit_box on a connected controller always leaves the box closed:
\* in_condition_box and box_line_start are false after it, both when it
\* returns and when it raises HwpControllerError, for every set of failing
\* sink calls.
C39_ExitBoxAlwaysCloses ==
  (hwp.pc = "returned" /\ hwp.op[1] = "exit_box")
    => /\ ~hwp.in_condition_box /\ ~hwp.box_line_start
       /\ hwp.exc \in {"none", "HwpControllerError"}

\* exit_box was called inside a box (it made the spacer paragraph), both ways
\* of leaving the cell failed and it raised
C39_Witness ==
  /\ hwp.pc = "returned" /\ hwp.op[1] = "exit_box"
  /\ hwp.exc = "HwpControllerError"
  /\ \E i, j \in 1..Len(hwp.out) :
       /\ i < j
       /\ hwp.out[i][1] = "BreakPara"
       /\ hwp.out[j][1] = "CloseEx"
  /\ ~hwp.out[Len(hwp.out)][3]

\* ------------------------------------------------- the fallback tokenizer
\* C31: a failing instruction is logged and skipped and scanning continues:
\* when the try block is left without cancellation, the scan goes on at the
\* position it had reached, so the instructions behind the failing one are
\* dispatched as without the failure, and a call whose sink operation raised
\* has put one entry for its instruction into the log.
C31_FailureLoggedAndSkipped ==
  [][(fb.pc = "L530" /\ ~fb.cancel /\ fb'.pc # "L530")
     => /\ fb'.pc = "L479" /\ fb'.i = fb.i /\ fb'.text = fb.text
        /\ (/\ Len(fb'.calls) = Len(fb.calls) + 1
            /\ Last(fb'.calls)[3] # "ok")
           => fb'.log = Append(fb.log, fb.matched)]_vars

\* the instructions the tokenizer matched and did not dispatch because the
\* cancel flag was raised: the log entries that belong to no failed call
CancelledDispatches ==
  Len(fb.log)
  - Cardinality({ k \in 1..Len(fb.calls) :
                    fb.calls[k][3] # "ok" /\ ~SilentFailure(fb.calls[k][1]) })

\* C36: item_finished is emitted for a script only if it ran to completion:
\* when the cancel flag was raised before the last instruction was
\* dispatched, so that the tokenizer did not dispatch it, item_finished is
\* not emitted.
C36_FinishedOnlyIfCompleted ==
  fb.pc = "item_finished" => CancelledDispatches = 0

\* ---------------------------------------------------- Quote/Brace Repair
\* the quote a line leaves open: a text or equation call with an odd number
\* of single quotes or, failing that, of double quotes; "none" otherwise
OpenQuote(line) ==
  IF ~ContainsAny(line, TargetCalls) THEN "none"
  ELSE IF count_unescaped(line, "'") % 2 = 1 THEN "'"
  ELSE IF count_unescaped(line, "\"") % 2 = 1 THEN "\""
  ELSE "none"

\* the lines a..b of lines balance the quote q
Balanced(lines, a, b, q) == SumCount(SubSeq(lines, a, b), q) % 2 = 0

\* the last line of the block that starts at line a: a itself when line a
\* leaves no quote open, otherwise the first later line at which the quote
\* count balances, the last line of the input when it never does
BlockEnd(lines, a) ==
  LET q == OpenQuote(lines[a])
      closing == { b \in (a + 1)..Len(lines) : Balanced(lines, a, b, q) }
  IN IF q = "none" THEN a
     ELSE IF closing = {} THEN Len(lines)
     ELSE CHOOSE b \in closing : \A c \in closing : b <= c

\* what the repair makes of the block a..b: a closed line stays, an open one
\* absorbs the lines behind it, joined by single spaces; a block the input
\* ends in unbalanced gets the quote and ")" (when guarded: unless it ends
\* in them already)
BlockLine(lines, a, b, guarded) ==
  LET q == OpenQuote(lines[a])
      joined == JoinStripped(SubSeq(lines, a, b))
  IN IF q = "none" THEN lines[a]
     ELSE IF b > a /\ Balanced(lines, a, b, q) THEN joined
     ELSE IF guarded /\ EndsWithPair(Strip(joined), q, ")") THEN joined
     ELSE joined \o <<q, ")">>

RECURSIVE Repaired(_, _, _)
\* the repaired lines from line a on
Repaired(lines, a, guarded) ==
  IF a > Len(lines) THEN <<>>
  ELSE <<BlockLine(lines, a, BlockEnd(lines, a), guarded)>>
       \o Repaired(lines, BlockEnd(lines, a) + 1, guarded)

\* C32 as stated: a line with an unterminated quoted argument of a text or
\* equation call absorbs the following lines, joined by single spaces, until
\* the quote count balances; if the input ends unbalanced the joined line is
\* closed with the missing quote and ")". The output never has more lines
\* than the input.
C32_RepairAbsorbs ==
  pipe.pc = "L613"
    => /\ pipe.lines = Repaired(PassInput, 1, FALSE)
       /\ Len(pipe.lines) <= Len(PassInput)

\* C32, amended: as above, and the closing quote and ")" are added only if
\* the joined line does not already end in that quote and ")".
C32_RepairAbsorbsUnlessClosed ==
  pipe.pc = "L613"
    => /\ pipe.lines = Repaired(PassInput, 1, TRUE)
       /\ Len(pipe.lines) <= Len(PassInput)

\* An open call absorbed the lines behind it, the input ended unbalanced and
\* the joined line was closed.
C32_Witness ==
  /\ pipe.pc = "L613"
  /\ Len(pipe.lines) < Len(PassInput)
  /\ OpenQuote(Last(PassInput)) = "none"
  /\ \E q \in Quotes :
       /\ EndsWithPair(Last(pipe.lines), q, ")")
       /\ ~EndsWithPair(Strip(Last(PassInput)), q, ")")

\* a complete call with a properly closed string argument, which may hold
\* the other quote character
WellFormed(line) ==
  /\ Len(line) >= 4
  /\ line[1] \in TargetCalls /\ line[2] \in Quotes
  /\ line[Len(line) - 1] = line[2] /\ line[Len(line)] = ")"
  /\ \A k \in 3..(Len(line) - 2) : line[k] \notin {line[2], "\\"}

\* C38: Quote/Brace Repair is the identity on well-formed input: if every
\* input line is a complete call with a properly closed string argument, the
\* repaired line list equals the input line list.
C38_RepairIdentity ==
  (pipe.pc = "L613" /\ \A i \in 1..Len(PassInput) : WellFormed(PassInput[i]))
    => pipe.lines = PassInput

\* ------------------------------------ refresh_user_profile_from_firebase
\* C34: the profile fetch is retried at most once after a 401 response: for
\* every sequence of answers of the server, a call makes at most two fetch
\* requests.
C34_AtMostTwoFetches == fs.fetches <= 2

\* ------------------------------------------- primary and fallback paths
\* C37: primary and fallback paths agree per instruction: for every
\* well-formed call, the fallback tokenizer dispatches the controller
\* operation the primary interpreter dispatches, with the same argument.
C37_PathsAgree ==
  (fb.pc = "return" /\ pipe.pc = "L697")
    => /\ Len(fb.calls) = Len(pipe.calls)
       /\ \A k \in 1..Len(fb.calls) :
            /\ fb.calls[k][1] = pipe.calls[k][1]
            /\ fb.calls[k][2] = pipe.calls[k][2]

\* C35: a script enqueued after cancel() was called, that is one standing in
\* the queue of a worker whose flag is set (cancel() empties the queue when it
\* sets the flag), is eventually started: item_started is emitted for it,
\* unless a later cancel() takes it out of the queue again.
C35_AcceptedAfterCancelStarts ==
  \A w \in WorkerIds : \A j \in 1..MaxJobs :
    (workers[w].cancel /\ j \in QueueOf(w))
      ~> (j \in JobIds /\ (jobs[j].started \/ jobs[j].drained))

\* C33: in auto-type mode the scripts are handed to enqueue in strictly
\* increasing index order, each after its own generation has finished and
\* with no earlier script still queued or being typed; an image is passed
\* over only if its generation failed or gave an empty script; and every
\* image whose script is not empty is eventually typed.
AutoTypeInOrder ==
  /\ \A i \in 1..Len(gen.enqueued) :
       /\ gen.enqueued[i] \notin gen.todo
       /\ i > 1 => gen.enqueued[i - 1] < gen.enqueued[i]
  /\ Len(gen.q) + (IF gen.typing # 0 THEN 1 ELSE 0) <= 1
SkippedOnlyIfEmpty ==
  \A idx \in gen.skipped_indexes : gen.results[idx] = EmptyText
Generated(i) ==
  i \in 1..gen.total /\ i \notin gen.todo /\ gen.results[i] # EmptyText
C33_AutoTypeOrderAndProgress ==
  /\ [](AutoTypeInOrder /\ SkippedOnlyIfEmpty)
  /\ \A i \in 1..MaxImages :
       Generated(i) ~> (Generated(i) /\ gen.gen_statuses[i] = "typed")

====
